---- MODULE Spec2Model ----
(***************************************************************************)
(* Video2TextGUI: the subtitle core of src/srt_utils.py                    *)
(*   format_time, generate_smart_srt, is_mainly_cjk                        *)
(*                                                                         *)
(* Characters are Unicode code points (integers); a Python str is a        *)
(* sequence of code points.  A Python value whose type matters is a        *)
(* tagged record [t |-> <type>, v |-> <payload>].                          *)
(***************************************************************************)
EXTENDS Integers, Sequences, FiniteSets, TLC

VARIABLES
    \* ---- format_time(milliseconds) ------------------------------------
    ft_arg,            \* the argument of the call
    ft_ret,            \* the string returned (<<>> while the call is pending)
    ft_pc,             \* "idle" | "call" | "done"
    \* ---- is_mainly_cjk(text) ------------------------------------------
    cjk_arg,           \* the argument of the call
    cjk_ret,           \* the boolean returned
    cjk_pc,            \* "idle" | "call" | "returned" | "raised"
    \* ---- generate_smart_srt(inference_result, min_length) -------------
    inference_result,  \* the first argument
    min_length,        \* the second argument
    data,              \* local: the result mapping        (line 32)
    text,              \* local: the text to segment        (lines 37-41)
    ts_list,           \* local: the interval list          (line 48)
    srt_content,       \* local: the document built so far  (line 61)
    sentence_idx,      \* local: 1-based cue counter        (line 62)
    ts_index,          \* local: interval pointer           (line 63)
    curr_text,         \* local: clause buffer              (line 66)
    curr_start,        \* local: clause start, -1 = unset   (line 67)
    curr_end,          \* local: clause end                 (line 68)
    pos,               \* number of characters of text the for loop has consumed
    pc,                \* "idle" | "start" | "resolve" | "loop" | "except" | "done"
    ret,               \* the value returned
    \* ---- history (not program state) ----------------------------------
    cues,              \* the cues emitted so far, with the span of text each came from
    failed,            \* whether the except clause of generate_smart_srt ran
    remembered,        \* one earlier call of generate_smart_srt and what it returned
    \* ---- the callers of generate_smart_srt (main.py) -------------------
    site,              \* the caller waiting for generate_smart_srt:
                       \* "none" | "export" | "dialog" | "slider" | "direct"
    raw_result,        \* show_interactive_editor_dialog: raw_result (line 1130)
    editor_value,      \* editor_field.value                      (line 1143)
    dlg_open,          \* whether the editor dialog is open        (line 1273)
    notice,            \* the last message shown to the user
    written,           \* the content last written to a .srt file, None if none
    \* ---- DatabaseHandler (db_handler.py) ------------------------------
    db,                \* the rows of table tasks, oldest created_at first
    db_ret,            \* what the last DatabaseHandler method returned
    db_op,             \* history: the last DatabaseHandler method called, its id
    \* ---- the history list of the page (main.py)
    history_list,      \* history_list.controls: the task cards shown, None
                       \* before the page is loaded
    \* ---- TaskStatusPoller (main.py)
    is_polling,        \* TaskStatusPoller.is_polling
    poll_pc,           \* where start_polling is: "none" (no poller) | "new" |
                       \* "request" | "record" | "sleep" | "stopped"
    server,            \* the remote service: the status of the task, its result
    response,          \* history: what the last status request came back with
    polls,             \* history: the status requests made, counted to MaxPolls
    status_display,    \* the message the status area shows
    \* ---- on_submit_click and the widgets it reads (main.py)
    submit_button,     \* submit_button: whether it is disabled, and its text
    submit_pc,         \* where on_submit_click is: "idle" | "running" (in the try)
    submit_exit,       \* history: the path the last run of on_submit_click left by
    url_input,         \* url_input.value
    browser_dropdown,  \* browser_dropdown.value
    cookie_checkbox,   \* cookie_checkbox.value
    cookies_read,      \* history: the browser whose cookies rookiepy last read
    snack_bar          \* the text of page.snack_bar

vars == <<ft_arg, ft_ret, ft_pc, cjk_arg, cjk_ret, cjk_pc,
          inference_result, min_length, data, text, ts_list, srt_content,
          sentence_idx, ts_index, curr_text, curr_start, curr_end, pos, pc, ret,
          cues, failed, remembered,
          site, raw_result, editor_value, dlg_open, notice, written,
          db, db_ret, db_op,
          history_list,
          is_polling, poll_pc, server, response, polls, status_display,
          submit_button, submit_pc, submit_exit, url_input, browser_dropdown, cookie_checkbox, cookies_read, snack_bar>>

ftVars == <<ft_arg, ft_ret, ft_pc>>

cjkVars == <<cjk_arg, cjk_ret, cjk_pc>>

srtVars == <<inference_result, min_length, data, text, ts_list, srt_content,
             sentence_idx, ts_index, curr_text, curr_start, curr_end, pos, pc, ret,
             cues, failed>>

appVars == <<remembered, site, raw_result, editor_value, dlg_open, notice, written>>

dbVars == <<db, db_ret, db_op>>

histVars == <<history_list>>

pollVars == <<is_polling, poll_pc, server, response, polls, status_display>>

\* the database, the history list, the poller and the submit handler
submitVars == <<submit_button, submit_pc, submit_exit, url_input, browser_dropdown, cookie_checkbox, cookies_read, snack_bar>>

sysVars == <<dbVars, histVars, pollVars, submitVars>>

\* everything subtitle generation and its callers work on
coreVars == <<ftVars, cjkVars, srtVars, appVars>>

\* what a method of DatabaseHandler called on its own leaves alone
besideDb == <<coreVars, histVars, pollVars, submitVars>>

\* what load_history_tasks leaves alone
besideHist == <<coreVars, pollVars, submitVars>>

\* what the poller leaves alone
besidePoll == <<coreVars, submitVars>>

(***************************************************************************)
(* Python values                                                           *)
(***************************************************************************)
IntVal(n) == [t |-> "int", v |-> n]

BoolVal(n) == [t |-> "bool", v |-> n]

\* a float holding the integral value n (100.0)
FloatVal(n) == [t |-> "float", v |-> n]

NoneVal == [t |-> "none", v |-> 0]

Str(s) == [t |-> "str", v |-> s]

List(s) == [t |-> "list", v |-> s]

Tuple(s) == [t |-> "tuple", v |-> s]

\* int and its subclass bool: the types // and % keep integral and 'd' formats
IsIntegral(x) == x.t \in {"int", "bool"}

(***************************************************************************)
(* Strings                                                                 *)
(***************************************************************************)
RECURSIVE Digits(_)
\* str(n) for n >= 0
Digits(n) == IF n < 10 THEN <<48 + n>> ELSE Digits(n \div 10) \o <<48 + (n % 10)>>

Zeros(k) == [j \in 1..k |-> 48]

\* format(n, "0<w>d"): zero padding to width w, the sign counted in the width
ZPad(n, w) ==
    IF n >= 0
    THEN Zeros(w - Len(Digits(n))) \o Digits(n)
    ELSE <<45>> \o Zeros(w - 1 - Len(Digits(-n))) \o Digits(-n)

\* str.isspace() of one character
IsSpace(c) ==
    c \in ({9, 10, 11, 12, 13, 28, 29, 30, 31, 32, 133, 160, 5760}
           \cup (8192..8202) \cup {8232, 8233, 8239, 8287, 12288})

RECURSIVE LStrip(_)
LStrip(s) == IF s # <<>> /\ IsSpace(Head(s)) THEN LStrip(Tail(s)) ELSE s

RECURSIVE RStrip(_)
RStrip(s) ==
    IF s # <<>> /\ IsSpace(s[Len(s)]) THEN RStrip(SubSeq(s, 1, Len(s) - 1)) ELSE s

\* Strip that trims nothing
StripNothing(s) == s

\* str.strip()
Strip(s) == RStrip(LStrip(s))

(***************************************************************************)
(* format_time                                          srt_utils.py:4-22  *)
(***************************************************************************)
\* "00:00:00,000"
FallbackTime == <<48, 48, 58, 48, 48, 58, 48, 48, 44, 48, 48, 48>>

\* FormatTimeTry with the minutes taken from all the seconds (no % 3600)
FormatTimeTryNoMod(milliseconds) ==
    IF IsIntegral(milliseconds)
    THEN LET seconds == milliseconds.v \div 1000
             ms      == milliseconds.v % 1000
             hours   == seconds \div 3600
             minutes == seconds \div 60
             secs    == seconds % 60
         IN  [exc |-> FALSE,
              val |-> ZPad(hours, 2) \o <<58>> \o ZPad(minutes, 2) \o <<58>>
                      \o ZPad(secs, 2) \o <<44>> \o ZPad(ms, 3)]
    ELSE [exc |-> TRUE, val |-> <<>>]

\* the try block (lines 7-17): [exc |-> an exception was raised, val |-> result].
\* // and % raise TypeError on str and None; on a float they give floats, which
\* the 'd' format of line 16 rejects with ValueError.
FormatTimeTry(milliseconds) ==
    IF IsIntegral(milliseconds)
    THEN LET seconds == milliseconds.v \div 1000
             ms      == milliseconds.v % 1000
             hours   == seconds \div 3600
             minutes == (seconds % 3600) \div 60
             secs    == seconds % 60
         IN  [exc |-> FALSE,
              val |-> ZPad(hours, 2) \o <<58>> \o ZPad(minutes, 2) \o <<58>>
                      \o ZPad(secs, 2) \o <<44>> \o ZPad(ms, 3)]
    ELSE [exc |-> TRUE, val |-> <<>>]

\* format_time with the empty string for the fallback literal
FormatTimeEmptyFallback(milliseconds) ==
    LET r == FormatTimeTry(milliseconds)
    IN  IF r.exc THEN <<>> ELSE r.val

\* try / except Exception (lines 6, 18-22)
format_time(milliseconds) ==
    LET r == FormatTimeTry(milliseconds)
    IN  IF r.exc THEN FallbackTime ELSE r.val

(***************************************************************************)
(* is_mainly_cjk                                     srt_utils.py:130-152  *)
(***************************************************************************)
\* the sample cap of line 146
SampleLen == 500

\* cjk_pattern (line 143): [\u4e00-\u9fff\u3040-\u309f\u30a0-\u30ff\uac00-\ud7af]
IsCJK(c) ==
    \/ c \in 19968..40959
    \/ c \in 12352..12447
    \/ c \in 12448..12543
    \/ c \in 44032..55215

\* text[:500]
Sample(s) == SubSeq(s, 1, IF Len(s) < SampleLen THEN Len(s) ELSE SampleLen)

\* len(cjk_pattern.findall(sample))
Matches(sample) == Cardinality({j \in 1..Len(sample) : IsCJK(sample[j])})

\* OverThreshold with >= for >
OverThresholdInclusive(matches, len) == 100 * matches >= 15 * len

\* line 150.  len(matches) / len(sample) > 0.15 is a float comparison; for
\* len(sample) <= 500 the quotient is either exactly 3/20 (and rounds to the
\* double of the literal 0.15) or differs from it by at least 1/10000, so the
\* comparison is the one of the rationals: 100 * matches > 15 * len.
OverThreshold(matches, len) == 100 * matches > 15 * len

\* `not text` (line 135): None, 0, "" and [] are falsy
Falsy(x) ==
    \/ x.t = "none"
    \/ x.t = "int" /\ x.v = 0
    \/ x.t \in {"str", "list"} /\ x.v = <<>>

\* the whole function: [raised |-> an exception left the function, val |-> result].
\* There is no try block: an int has no [:500] (TypeError, line 146) and
\* findall rejects a list (TypeError, line 147).
is_mainly_cjk(x) ==
    IF Falsy(x) THEN [raised |-> FALSE, val |-> FALSE]
    ELSE IF x.t # "str" THEN [raised |-> TRUE, val |-> FALSE]
    ELSE LET sample  == Sample(x.v)
             matches == Matches(sample)
         IN  [raised |-> FALSE,
              val |-> Len(sample) > 0 /\ OverThreshold(matches, Len(sample))]

(***************************************************************************)
(* generate_smart_srt                                 srt_utils.py:24-128  *)
(***************************************************************************)
\* hard_break_chars (line 57): the full-width 。？！；： the ASCII ?!;: and \n
hard_break_chars == {12290, 65311, 65281, 65307, 65306, 63, 33, 59, 58, 10}

\* soft_break_chars (line 59): . ， 、 , and the space
soft_break_chars == {46, 65292, 12289, 44, 32}

\* a dict with the keys `keys` among text, transcription, srt, timestamp
Dict(keys, txt, trn, srt, ts) ==
    [t |-> "dict",
     v |-> [keys |-> keys, text |-> txt, transcription |-> trn, srt |-> srt,
            timestamp |-> ts]]

\* " --> "
Arrow == <<32, 45, 45, 62, 32>>

\* CueBlock with the text line ended by one newline, no blank line
CueBlockNoBlank(idx, start, end, buf) ==
    Digits(idx) \o <<10>>
    \o format_time(start) \o Arrow \o format_time(end) \o <<10>>
    \o Strip(buf) \o <<10>>

\* lines 107-109 (and 119-121): one cue block appended to srt_content
CueBlock(idx, start, end, buf) ==
    Digits(idx) \o <<10>>
    \o format_time(start) \o Arrow \o format_time(end) \o <<10>>
    \o Strip(buf) \o <<10, 10>>

\* curr_start == -1 (lines 78, 104, 118): -1 and -1.0 compare equal to -1
IsUnset(x) == x.t \in {"int", "float"} /\ x.v = -1

\* IsPunctuation without char.isspace()
IsPunctuationNoSpace(char) ==
    char \in hard_break_chars \/ char \in soft_break_chars

\* line 72
IsPunctuation(char) ==
    char \in hard_break_chars \/ char \in soft_break_chars \/ IsSpace(char)

\* lines 74-82: [exc, curr_start, curr_end, ts_index] after part A of the body.
\* len(ts_list) raises TypeError when ts_list is no list (line 75); the
\* unpacking of line 76 raises unless the entry is a sequence of two.
ConsumeInterval(char) ==
    LET same == [exc |-> FALSE, curr_start |-> curr_start, curr_end |-> curr_end,
                 ts_index |-> ts_index]
        bad  == [same EXCEPT !.exc = TRUE]
    IN  IF IsPunctuation(char) THEN same
        ELSE IF ts_list.t # "list" THEN bad
        ELSE IF ts_index >= Len(ts_list.v) THEN same
        ELSE LET entry == ts_list.v[ts_index + 1]
             IN  IF ~(entry.t \in {"list", "tuple"} /\ Len(entry.v) = 2) THEN bad
                 ELSE [exc |-> FALSE,
                       curr_start |-> IF IsUnset(curr_start) THEN entry.v[1]
                                                             ELSE curr_start,
                       curr_end |-> entry.v[2],
                       ts_index |-> ts_index + 1]

\* LongEnough with > for >=
LongEnoughStrict(buf, ml) == Len(buf) > ml.v

\* len(curr_text) >= min_length (line 98): TypeError unless min_length is a number
LongEnough(buf, ml) == Len(buf) >= ml.v

\* ShouldFlush with the hard break gated by the threshold like the soft break
ShouldFlushGated(char, buf) ==
    IF char \in hard_break_chars \/ char \in soft_break_chars
    THEN IF min_length.t \in {"int", "bool", "float"}
         THEN [exc |-> FALSE, flush |-> Len(buf) >= min_length.v]
         ELSE [exc |-> TRUE, flush |-> FALSE]
    ELSE [exc |-> FALSE, flush |-> FALSE]

\* lines 88-99: [exc, flush]; buf is curr_text with char appended
ShouldFlush(char, buf) ==
    IF char \in hard_break_chars THEN [exc |-> FALSE, flush |-> TRUE]
    ELSE IF char \in soft_break_chars
    THEN IF min_length.t \in {"int", "bool", "float"}
         THEN [exc |-> FALSE, flush |-> LongEnough(buf, min_length)]
         ELSE [exc |-> TRUE, flush |-> FALSE]
    ELSE [exc |-> FALSE, flush |-> FALSE]

\* HasContent without the test of the trimmed buffer
HasContentAlways(buf) == TRUE

\* curr_text.strip() as a condition (lines 102, 117)
HasContent(buf) == Strip(buf) # <<>>

\* ClauseStart falling back to 0 instead of the clause end
ClauseStartZero(cs, ce) == IF IsUnset(cs) THEN IntVal(0) ELSE cs

\* ClauseStart without the fallback to the clause end
ClauseStartNoFallback(cs, ce) == cs

\* lines 104-105 (and 118): if curr_start == -1: curr_start = curr_end
ClauseStart(cs, ce) == IF IsUnset(cs) THEN ce ELSE cs

\* the history entry of a cue: what was emitted and the span lo..hi of text
\* that the clause buffer held
CueRec(idx, start, end, buf, hi) ==
    [idx |-> idx, start |-> start, end |-> end, text |-> Strip(buf),
     lo |-> hi - Len(buf) + 1, hi |-> hi]

\* line 32: data = inference_result[0] if isinstance(inference_result, list)
\* (IndexError on an empty list)
Normalize ==
    /\ pc = "start"
    /\ IF inference_result.t = "list"
       THEN IF inference_result.v = <<>>
            THEN pc' = "except" /\ data' = data
            ELSE pc' = "resolve" /\ data' = inference_result.v[1]
       ELSE pc' = "resolve" /\ data' = inference_result
    /\ UNCHANGED <<inference_result, min_length, text, ts_list, srt_content,
                   sentence_idx, ts_index, curr_text, curr_start, curr_end, pos,
                   ret, cues, failed>>

\* TextSource with the two fields looked up in the other order
TextSourceSwapped(d) ==
    IF "transcription" \in d.keys THEN d.transcription
    ELSE IF "text" \in d.keys THEN d.text
    ELSE Str(<<>>)

\* lines 37-41: the text source
TextSource(d) ==
    IF "text" \in d.keys THEN d.text
    ELSE IF "transcription" \in d.keys THEN d.transcription
    ELSE Str(<<>>)

\* TakesSrtBranch with the branch taken whenever the key srt is present
TakesSrtBranchFirst(d) == "srt" \in d.keys

\* TakesSrtBranch looking up a key no result has
TakesSrtBranchTypo(d) ==
    /\ "text" \notin d.keys
    /\ "transcription" \notin d.keys
    /\ "srt_content" \in d.keys

\* lines 42-45: the elif chain reaches the srt branch
TakesSrtBranch(d) ==
    /\ "text" \notin d.keys
    /\ "transcription" \notin d.keys
    /\ "srt" \in d.keys

\* lines 35-68: the text source, the early returns, the initial locals
Resolve ==
    /\ pc = "resolve"
    /\ IF data.t # "dict"
       THEN /\ ret' = Str(<<>>)
            /\ pc' = "done"
            /\ UNCHANGED <<text, ts_list>>
       ELSE IF TakesSrtBranch(data.v)
       THEN /\ ret' = data.v.srt
            /\ pc' = "done"
            /\ text' = Str(<<>>)
            /\ UNCHANGED ts_list
       ELSE /\ text' = TextSource(data.v)
            /\ ts_list' = IF "timestamp" \in data.v.keys THEN data.v.timestamp
                                                         ELSE List(<<>>)
            /\ pc' = "loop"
            /\ ret' = ret
    /\ UNCHANGED <<inference_result, min_length, data, srt_content, sentence_idx,
                   ts_index, curr_text, curr_start, curr_end, pos, cues, failed>>

\* `for char in text` on a value that cannot be iterated (line 70): TypeError
LoopRaise ==
    /\ pc = "loop"
    /\ text.t # "str"
    /\ pc' = "except"
    /\ UNCHANGED <<inference_result, min_length, data, text, ts_list, srt_content,
                   sentence_idx, ts_index, curr_text, curr_start, curr_end, pos,
                   ret, cues, failed>>

\* lines 70-114: one iteration of the loop
LoopStep ==
    /\ pc = "loop"
    /\ text.t = "str"
    /\ pos < Len(text.v)
    /\ LET char == text.v[pos + 1]
           a    == ConsumeInterval(char)
           buf  == curr_text \o <<char>>
           f    == ShouldFlush(char, buf)
           st   == ClauseStart(a.curr_start, a.curr_end)
       IN  IF a.exc \/ f.exc
           THEN /\ pc' = "except"
                /\ UNCHANGED <<srt_content, sentence_idx, ts_index, curr_text,
                               curr_start, curr_end, pos, cues>>
           ELSE /\ pc' = "loop"
                /\ pos' = pos + 1
                /\ ts_index' = a.ts_index
                /\ curr_end' = a.curr_end
                /\ IF f.flush /\ HasContent(buf)
                   THEN /\ srt_content' =
                               srt_content \o CueBlock(sentence_idx, st, a.curr_end, buf)
                        /\ cues' = Append(cues,
                               CueRec(sentence_idx, st, a.curr_end, buf, pos + 1))
                        /\ sentence_idx' = sentence_idx + 1
                        /\ curr_text' = <<>>
                        /\ curr_start' = IntVal(-1)
                   ELSE /\ curr_text' = buf
                        /\ curr_start' = a.curr_start
                        /\ UNCHANGED <<srt_content, sentence_idx, cues>>
    /\ UNCHANGED <<inference_result, min_length, data, text, ts_list, ret, failed>>

\* Finish without the flush of the remaining text (lines 117-121 left out)
FinishNoTail ==
    /\ pc = "loop"
    /\ text.t = "str"
    /\ pos = Len(text.v)
    /\ ret' = Str(srt_content)
    /\ pc' = "done"
    /\ UNCHANGED <<inference_result, min_length, data, text, ts_list, srt_content,
                   sentence_idx, ts_index, curr_text, curr_start, curr_end, pos,
                   cues, failed>>

\* lines 116-124: the loop is over; the remaining text is flushed and the
\* document returned
Finish ==
    /\ pc = "loop"
    /\ text.t = "str"
    /\ pos = Len(text.v)
    /\ LET st == ClauseStart(curr_start, curr_end)
       IN  IF HasContent(curr_text)
           THEN /\ srt_content' =
                       srt_content \o CueBlock(sentence_idx, st, curr_end, curr_text)
                /\ cues' = Append(cues,
                       CueRec(sentence_idx, st, curr_end, curr_text, pos))
                /\ curr_start' = st
           ELSE UNCHANGED <<srt_content, cues, curr_start>>
    /\ ret' = Str(srt_content')
    /\ pc' = "done"
    /\ UNCHANGED <<inference_result, min_length, data, text, ts_list, sentence_idx,
                   ts_index, curr_text, curr_end, pos, failed>>

\* ExceptReturn handing back the cues accumulated before the failure
ExceptReturnPartial == Str(srt_content)

\* lines 125-128: except Exception: return ""
ExceptReturn == Str(<<>>)

Except ==
    /\ pc = "except"
    /\ ret' = ExceptReturn
    /\ failed' = TRUE
    /\ pc' = "done"
    /\ UNCHANGED <<inference_result, min_length, data, text, ts_list, srt_content,
                   sentence_idx, ts_index, curr_text, curr_start, curr_end, pos,
                   cues>>

(***************************************************************************)
(* The calls of generate_smart_srt that are explored                       *)
(***************************************************************************)
\* longest text of the exhaustive family
MaxTextLen == 3

\* longest interval list of the exhaustive family
MaxTs == 2

\* largest small threshold of the exhaustive family
MaxMinLen == 3

\* a content character, two hard breaks (one of them whitespace), two soft
\* breaks (one of them whitespace) and a whitespace outside both sets:
\* a 。 \n , space \t
Alphabet == {97, 12290, 10, 44, 32, 9}

SeqsUpTo(S, n) == UNION {[1..k -> S] : k \in 0..n}

\* the k-th interval of a transcript with one interval per 100 ms
Interval(k) == List(<<IntVal((k - 1) * 100), IntVal(k * 100)>>)

Intervals(n) == List([k \in 1..n |-> Interval(k)])

\* "你好。再见！"
TextHardExample == <<20320, 22909, 12290, 20877, 35265, 65281>>

\* "ab,cd,ef,gh"
TextSoftExample == <<97, 98, 44, 99, 100, 44, 101, 102, 44, 103, 104>>

Call(res, ml) == [res |-> res, ml |-> ml]

TextOnly(txt, ts) == Dict({"text", "timestamp"}, Str(txt), Str(<<>>), Str(<<>>), ts)

\* every short text, with 0..MaxTs intervals and small and large thresholds
CoreCalls ==
    {Call(TextOnly(txt, Intervals(n)), IntVal(ml)) :
        txt \in SeqsUpTo(Alphabet, MaxTextLen),
        n \in 0..MaxTs,
        ml \in (1..MaxMinLen) \cup {100}}

\* the examples of the specification
ExampleCalls ==
    {Call(TextOnly(TextHardExample, Intervals(4)), IntVal(100)),
     Call(TextOnly(TextSoftExample, Intervals(8)), IntVal(5)),
     Call(TextOnly(TextSoftExample, Intervals(8)), IntVal(100))}

\* "a。a," and "a,a": the values of the fields text and transcription
ShapeText == Str(<<97, 12290, 97, 44>>)

ShapeTranscription == Str(<<97, 44, 97>>)

\* "S": the value of the field srt
ShapeSrt == Str(<<83>>)

\* mappings with every combination of keys, a text that is a str or not
\* iterable, a timestamp that is a list, holds an entry that is no pair, or
\* is no list
ShapeDicts ==
    {Dict(keys, txt, ShapeTranscription, ShapeSrt, ts) :
        keys \in SUBSET {"text", "transcription", "srt", "timestamp"},
        txt \in {ShapeText, IntVal(5)},
        ts \in {Intervals(2), List(<<Interval(1), IntVal(3)>>),
                List(<<Interval(1), List(<<IntVal(1), IntVal(2), IntVal(3)>>)>>),
                NoneVal}}

\* a mapping, a list or a tuple holding one, an empty list, values that are
\* no mapping; min_length a number or None
ShapeCalls ==
    {Call(res, ml) :
        res \in ShapeDicts
                \cup {List(<<d>>) : d \in ShapeDicts}
                \cup {Tuple(<<d>>) : d \in ShapeDicts}
                \cup {List(<<>>), NoneVal, Str(<<97>>), List(<<NoneVal>>)},
        ml \in {IntVal(1), IntVal(100), NoneVal}}

Calls == CoreCalls \cup ExampleCalls \cup ShapeCalls

(***************************************************************************)
(* Specifications                                                          *)
(***************************************************************************)
FtIdle == ft_arg = NoneVal /\ ft_ret = <<>> /\ ft_pc = "idle"

CjkIdle == cjk_arg = NoneVal /\ cjk_ret = FALSE /\ cjk_pc = "idle"

SrtIdle ==
    /\ inference_result = NoneVal
    /\ min_length = NoneVal
    /\ data = NoneVal
    /\ text = Str(<<>>)
    /\ ts_list = List(<<>>)
    /\ srt_content = <<>>
    /\ sentence_idx = 1
    /\ ts_index = 0
    /\ curr_text = <<>>
    /\ curr_start = IntVal(-1)
    /\ curr_end = IntVal(0)
    /\ pos = 0
    /\ pc = "idle"
    /\ ret = NoneVal
    /\ cues = <<>>
    /\ failed = FALSE

\* the submit button as it is built, and as on_submit_click sets it on entry
IdleButton == [disabled |-> FALSE, text |-> "submit task"]

BusyButton == [disabled |-> TRUE, text |-> "submitting..."]

\* an empty table, no method called yet
DbIdle ==
    /\ db = <<>>
    /\ db_ret = NoneVal
    /\ db_op = [op |-> "none", id |-> "none"]

HistIdle ==
    /\ history_list = NoneVal

PollIdle ==
    /\ is_polling = FALSE
    /\ poll_pc = "none"
    /\ server = [status |-> "pending", result |-> NoneVal]
    /\ response = NoneVal
    /\ polls = 0
    /\ status_display = "no task"

SubmitIdle ==
    /\ submit_button = IdleButton
    /\ submit_pc = "idle"
    /\ submit_exit = "none"
    /\ url_input = ""
    /\ browser_dropdown = "Firefox"
    /\ cookie_checkbox = FALSE
    /\ cookies_read = "none"
    /\ snack_bar = "none"

SysIdle == DbIdle /\ HistIdle /\ PollIdle /\ SubmitIdle

\* no caller is active: no dialog, nothing shown, nothing written
AppIdle ==
    /\ remembered = NoneVal
    /\ site = "none"
    /\ raw_result = NoneVal
    /\ editor_value = Str(<<>>)
    /\ dlg_open = FALSE
    /\ notice = "none"
    /\ written = NoneVal
    /\ SysIdle

\* one call of generate_smart_srt; the locals hold the values of lines 61-68
Init ==
    /\ FtIdle
    /\ CjkIdle
    /\ AppIdle
    /\ \E c \in Calls :
          /\ inference_result = c.res
          /\ min_length = c.ml
    /\ data = NoneVal
    /\ text = Str(<<>>)
    /\ ts_list = List(<<>>)
    /\ srt_content = <<>>
    /\ sentence_idx = 1
    /\ ts_index = 0
    /\ curr_text = <<>>
    /\ curr_start = IntVal(-1)
    /\ curr_end = IntVal(0)
    /\ pos = 0
    /\ pc = "start"
    /\ ret = NoneVal
    /\ cues = <<>>
    /\ failed = FALSE

Next ==
    \/ Normalize /\ UNCHANGED <<sysVars, ftVars, cjkVars, appVars>>
    \/ Resolve /\ UNCHANGED <<sysVars, ftVars, cjkVars, appVars>>
    \/ LoopRaise /\ UNCHANGED <<sysVars, ftVars, cjkVars, appVars>>
    \/ LoopStep /\ UNCHANGED <<sysVars, ftVars, cjkVars, appVars>>
    \/ Finish /\ UNCHANGED <<sysVars, ftVars, cjkVars, appVars>>
    \/ Except /\ UNCHANGED <<sysVars, ftVars, cjkVars, appVars>>

Spec == Init /\ [][Next]_vars

(***************************************************************************)
(* generate_smart_srt on interval lists with arbitrary times               *)
(***************************************************************************)
\* a content character, a hard break and a soft break: a \u3002 ,
TimingAlphabet == {97, 12290, 44}

Pair(s, e) == List(<<IntVal(s), IntVal(e)>>)

\* intervals with distinct starts and distinct ends: an ordinary one, its
\* successor, one that starts at -1, one that ends before it starts
TimingPairs == {Pair(0, 3), Pair(3, 5), Pair(-1, 2), Pair(5, 4)}

\* every short text over TimingAlphabet with every list of up to MaxTs
\* intervals from TimingPairs, with a threshold that every soft break
\* reaches and one that none reaches
TimingCalls ==
    {Call(TextOnly(txt, List(ts)), IntVal(ml)) :
        txt \in SeqsUpTo(TimingAlphabet, MaxTextLen),
        ts \in SeqsUpTo(TimingPairs, MaxTs),
        ml \in {1, 100}}

\* calls that fail: the empty list, a text that cannot be iterated
FailingCalls ==
    {Call(List(<<>>), IntVal(1)),
     Call(Dict({"text", "timestamp"}, IntVal(5), Str(<<>>), Str(<<>>),
               List(<<Pair(0, 3)>>)), IntVal(1))}

InitTiming ==
    /\ FtIdle
    /\ CjkIdle
    /\ AppIdle
    /\ \E c \in TimingCalls \cup FailingCalls :
          /\ inference_result = c.res
          /\ min_length = c.ml
    /\ data = NoneVal
    /\ text = Str(<<>>)
    /\ ts_list = List(<<>>)
    /\ srt_content = <<>>
    /\ sentence_idx = 1
    /\ ts_index = 0
    /\ curr_text = <<>>
    /\ curr_start = IntVal(-1)
    /\ curr_end = IntVal(0)
    /\ pos = 0
    /\ pc = "start"
    /\ ret = NoneVal
    /\ cues = <<>>
    /\ failed = FALSE

SpecTiming == InitTiming /\ [][Next]_vars

(***************************************************************************)
(* format_time on its own: one call per behaviour                          *)
(***************************************************************************)
\* hours 0..MaxHours are explored, with 99 and 100
MaxHours == 1

FtHours == (0..MaxHours) \cup {99, 100}

FtSixty == {0, 1, 9, 10, 59}

FtMillis == {0, 1, 9, 10, 99, 100, 999}

FtNats ==
    {h * 3600000 + m * 60000 + sec * 1000 + k :
        h \in FtHours, m \in FtSixty, sec \in FtSixty, k \in FtMillis}

\* integers of both signs, bools, floats, None, strings and a list
FtArgs ==
    {IntVal(n) : n \in FtNats} \cup {IntVal(-n) : n \in FtNats}
    \cup {BoolVal(0), BoolVal(1), FloatVal(0), FloatVal(1500), NoneVal,
          Str(<<>>), Str(<<49, 50>>), List(<<>>)}

InitFormatTime ==
    /\ ft_arg \in FtArgs
    /\ ft_ret = <<>>
    /\ ft_pc = "call"
    /\ CjkIdle
    /\ SrtIdle
    /\ AppIdle

FormatTimeCall ==
    /\ ft_pc = "call"
    /\ ft_ret' = format_time(ft_arg)
    /\ ft_pc' = "done"
    /\ UNCHANGED <<sysVars, ft_arg, cjkVars, srtVars, appVars>>

SpecFormatTime == InitFormatTime /\ [][FormatTimeCall]_vars

(***************************************************************************)
(* is_mainly_cjk on its own: one call per behaviour                        *)
(***************************************************************************)
\* longest text of the exhaustive family of short texts
MaxCjkLen == 2

\* the counts of CJK characters explored lie within MaxDelta of 15%
MaxDelta == 2

\* most characters appended behind the head of a text
MaxTail == 2

\* the first and last character of each range of the pattern, the characters
\* next to them outside the ranges, and the letter a
CjkAlphabet ==
    {19968, 40959, 19967, 40960, 12352, 12543, 12351, 12544,
     44032, 55215, 44031, 55216, 97}

Rep(c, n) == [j \in 1..n |-> c]

\* head lengths: 10, 20 and 100 characters, and one less than, exactly and
\* one more than the sample cap
CjkHeadLens == {10, 20, 100, SampleLen - 1, SampleLen, SampleLen + 1}

\* texts of n characters of which c are CJK (at the front or at the back of
\* the head), followed by tl further CJK characters
CjkMixes ==
    {h \o Rep(20320, tl) :
        h \in UNION {{Rep(20320, c) \o Rep(97, n - c), Rep(97, n - c) \o Rep(20320, c)} :
                        <<n, c>> \in {<<n, (15 * n) \div 100 + d>> :
                                          n \in CjkHeadLens, d \in (0 - MaxDelta)..MaxDelta}},
        tl \in 0..MaxTail}

CjkArgs ==
    {Str(x) : x \in SeqsUpTo(CjkAlphabet, MaxCjkLen) \cup CjkMixes}
    \cup {NoneVal, IntVal(0), IntVal(5), List(<<>>), List(<<IntVal(1), IntVal(2)>>)}

InitCjk ==
    /\ cjk_arg \in CjkArgs
    /\ cjk_ret = FALSE
    /\ cjk_pc = "call"
    /\ FtIdle
    /\ SrtIdle
    /\ AppIdle

IsMainlyCjkCall ==
    /\ cjk_pc = "call"
    /\ LET r == is_mainly_cjk(cjk_arg)
       IN  /\ cjk_ret' = r.val
           /\ cjk_pc' = IF r.raised THEN "raised" ELSE "returned"
    /\ UNCHANGED <<sysVars, cjk_arg, ftVars, srtVars, appVars>>

SpecCjk == InitCjk /\ [][IsMainlyCjkCall]_vars

(***************************************************************************)
(* generate_smart_srt called again and again                               *)
(***************************************************************************)
\* the call generate_smart_srt(res, ml): a new frame, whose locals get the
\* values of lines 61-68 (the frame of an earlier call is gone, see Leave)
Enter(res, ml) ==
    /\ pc = "idle"
    /\ inference_result' = res
    /\ min_length' = ml
    /\ pc' = "start"
    /\ UNCHANGED <<data, text, ts_list, srt_content, sentence_idx, ts_index,
                   curr_text, curr_start, curr_end, pos, ret, cues, failed>>

\* Leave with the interval pointer and the clause end kept for the next
\* call, as module-level variables would be
LeaveStale ==
    /\ pc = "done"
    /\ inference_result' = NoneVal
    /\ min_length' = NoneVal
    /\ data' = NoneVal
    /\ text' = Str(<<>>)
    /\ ts_list' = List(<<>>)
    /\ srt_content' = <<>>
    /\ sentence_idx' = 1
    /\ curr_text' = <<>>
    /\ curr_start' = IntVal(-1)
    /\ pos' = 0
    /\ pc' = "idle"
    /\ ret' = NoneVal
    /\ cues' = <<>>
    /\ failed' = FALSE
    /\ UNCHANGED <<ts_index, curr_end>>

\* the return (lines 45, 53, 124, 128): the frame and its locals are gone;
\* the next call starts from the values of lines 61-68
Leave ==
    /\ pc = "done"
    /\ inference_result' = NoneVal
    /\ min_length' = NoneVal
    /\ data' = NoneVal
    /\ text' = Str(<<>>)
    /\ ts_list' = List(<<>>)
    /\ srt_content' = <<>>
    /\ sentence_idx' = 1
    /\ ts_index' = 0
    /\ curr_text' = <<>>
    /\ curr_start' = IntVal(-1)
    /\ curr_end' = IntVal(0)
    /\ pos' = 0
    /\ pc' = "idle"
    /\ ret' = NoneVal
    /\ cues' = <<>>
    /\ failed' = FALSE

\* history: the call that has just returned is kept for later comparison
Remember ==
    /\ pc = "done"
    /\ remembered = NoneVal
    /\ remembered' = [res |-> inference_result, ml |-> min_length, ret |-> ret]
    /\ UNCHANGED <<sysVars, ftVars, cjkVars, srtVars, site, raw_result, editor_value,
                   dlg_open, notice, written>>

\* longest text of the calls that are repeated
MaxRepeatLen == 2

\* every short text of a and , under the key text, with no interval or two;
\* "a,a" under the key transcription; a pass-through; a text that cannot be
\* iterated
RepeatDicts ==
    {TextOnly(txt, Intervals(n)) :
        txt \in SeqsUpTo({97, 44}, MaxRepeatLen), n \in {0, 2}}
    \cup {Dict({"transcription", "timestamp"}, Str(<<>>), ShapeTranscription,
               Str(<<>>), Intervals(2)),
          Dict({"srt"}, Str(<<>>), Str(<<>>), ShapeSrt, List(<<>>)),
          Dict({"text"}, IntVal(5), Str(<<>>), Str(<<>>), List(<<>>))}

\* each mapping as it is, in a list, in a tuple; the empty list
RepeatCalls ==
    {Call(res, IntVal(ml)) :
        res \in RepeatDicts
                \cup {List(<<d>>) : d \in RepeatDicts}
                \cup {Tuple(<<d>>) : d \in RepeatDicts}
                \cup {List(<<>>)},
        ml \in {1, 100}}

\* some caller calls generate_smart_srt
DirectCall ==
    /\ site = "none"
    /\ \E c \in RepeatCalls : Enter(c.res, c.ml)
    /\ site' = "direct"
    /\ UNCHANGED <<sysVars, ftVars, cjkVars, remembered, raw_result, editor_value,
                   dlg_open, notice, written>>

DirectReturn ==
    /\ site = "direct"
    /\ Leave
    /\ site' = "none"
    /\ UNCHANGED <<sysVars, ftVars, cjkVars, remembered, raw_result, editor_value,
                   dlg_open, notice, written>>

InitRepeat == FtIdle /\ CjkIdle /\ SrtIdle /\ AppIdle

NextRepeat ==
    \/ DirectCall
    \/ DirectReturn
    \/ Remember
    \/ Normalize /\ UNCHANGED <<sysVars, ftVars, cjkVars, appVars>>
    \/ Resolve /\ UNCHANGED <<sysVars, ftVars, cjkVars, appVars>>
    \/ LoopRaise /\ UNCHANGED <<sysVars, ftVars, cjkVars, appVars>>
    \/ LoopStep /\ UNCHANGED <<sysVars, ftVars, cjkVars, appVars>>
    \/ Finish /\ UNCHANGED <<sysVars, ftVars, cjkVars, appVars>>
    \/ Except /\ UNCHANGED <<sysVars, ftVars, cjkVars, appVars>>

SpecRepeat == InitRepeat /\ [][NextRepeat]_vars

(***************************************************************************)
(* The callers of generate_smart_srt                main.py:1118-1370     *)
(***************************************************************************)
\* the two defaults of the threshold (main.py lines 1155, 1295)
CjkDefault == 15

LatinDefault == 40

\* the ends of the slider (main.py line 1173); on_slider_change is explored
\* at both
SliderMin == 8

SliderMax == 80

SliderValues == {SliderMin, SliderMax}

\* the default of raw_result.get("transcription", ...) at line 1155:
\* four CJK characters, 缺省内容
DefaultTranscription == Str(<<32570, 30465, 20869, 23481>>)

\* d.get("transcription", default)
GetTranscription(d, default) ==
    IF "transcription" \in d.v.keys THEN d.v.transcription ELSE default

\* 15 if is_mainly_cjk(x) else 40: [raised, val]
DefaultFor(x) ==
    LET r == is_mainly_cjk(x)
    IN  [raised |-> r.raised,
         val |-> IntVal(IF r.val THEN CjkDefault ELSE LatinDefault)]

\* export_subtitle, lines 1294-1295: the sample is the first 500 characters
\* of the field transcription, "" when the key is absent
ExportDefault(result) ==
    LET t == GetTranscription(result, Str(<<>>))
    IN  IF t.t = "str" THEN DefaultFor(Str(Sample(t.v)))
        ELSE [raised |-> TRUE, val |-> NoneVal]

\* show_interactive_editor_dialog, line 1155
DialogDefault(result) == DefaultFor(GetTranscription(result, DefaultTranscription))

\* "aaaaaaa,a": a soft break that the threshold 8 honours and 15, 40, 80 do not
AppLatin == <<97, 97, 97, 97, 97, 97, 97, 44, 97>>

\* 你好。再见
AppCjk == <<20320, 22909, 12290, 20877, 35265>>

\* task['result'] as stored: what the server sends (transcription,
\* timestamp, srt) in Latin and in CJK; the text under the key text, Latin
\* and CJK; both keys with different scripts; a text of one space; a
\* timestamp that is null; a text that is a number; no result
AppResults ==
    {Dict({"transcription", "timestamp", "srt"}, Str(<<>>), Str(AppLatin), ShapeSrt,
          Intervals(8)),
     Dict({"transcription", "timestamp", "srt"}, Str(<<>>), Str(AppCjk), ShapeSrt,
          Intervals(4)),
     Dict({"text", "timestamp"}, Str(AppLatin), Str(<<>>), Str(<<>>), Intervals(8)),
     Dict({"text", "timestamp"}, Str(AppCjk), Str(<<>>), Str(<<>>), Intervals(4)),
     Dict({"text", "transcription", "timestamp"}, Str(AppLatin), Str(AppCjk),
          Str(<<>>), Intervals(8)),
     Dict({"transcription"}, Str(<<>>), Str(<<32>>), Str(<<>>), List(<<>>)),
     Dict({"transcription", "timestamp"}, Str(<<>>), Str(<<97>>), Str(<<>>), NoneVal),
     Dict({"text"}, IntVal(5), Str(<<>>), Str(<<>>), List(<<>>)),
     NoneVal}

\* export_subtitle, lines 1277-1298: up to the call of generate_smart_srt
ExportSubtitleCall ==
    /\ site = "none"
    /\ ~dlg_open
    /\ \E result \in AppResults :
          IF Falsy(result)
          THEN /\ notice' = "result_unavailable"
               /\ UNCHANGED <<srtVars, site>>
          ELSE LET dflt == ExportDefault(result)
               IN  IF dflt.raised
                   THEN /\ notice' = "export_error"
                        /\ UNCHANGED <<srtVars, site>>
                   ELSE /\ Enter(result, dflt.val)
                        /\ site' = "export"
                        /\ UNCHANGED notice
    /\ UNCHANGED <<sysVars, ftVars, cjkVars, remembered, raw_result, editor_value, dlg_open,
                   written>>

\* export_subtitle, lines 1298-1370: from the return of generate_smart_srt;
\* open() or write() may fail
ExportSubtitleReturn ==
    /\ site = "export"
    /\ pc = "done"
    /\ IF Falsy(ret)
       THEN notice' = "generation_failed" /\ UNCHANGED written
       ELSE \E ok \in BOOLEAN :
               IF ok THEN written' = ret /\ notice' = "exported"
                     ELSE notice' = "export_error" /\ UNCHANGED written
    /\ Leave
    /\ site' = "none"
    /\ UNCHANGED <<sysVars, ftVars, cjkVars, remembered, raw_result, editor_value, dlg_open>>

\* show_interactive_editor_dialog, lines 1118-1232: up to the call of
\* generate_smart_srt; an exception of line 1155 leaves the handler
ShowEditorCall ==
    /\ site = "none"
    /\ ~dlg_open
    /\ \E result \in AppResults :
          IF Falsy(result)
          THEN /\ notice' = "data_unavailable"
               /\ UNCHANGED <<srtVars, site, raw_result>>
          ELSE LET dflt == DialogDefault(result)
               IN  IF dflt.raised
                   THEN UNCHANGED <<srtVars, site, raw_result, notice>>
                   ELSE /\ Enter(result, dflt.val)
                        /\ raw_result' = result
                        /\ site' = "dialog"
                        /\ UNCHANGED notice
    /\ UNCHANGED <<sysVars, ftVars, cjkVars, remembered, editor_value, dlg_open, written>>

\* show_interactive_editor_dialog, lines 1232-1273: the editor gets the
\* document, the dialog opens
ShowEditorReturn ==
    /\ site = "dialog"
    /\ pc = "done"
    /\ editor_value' = ret
    /\ dlg_open' = TRUE
    /\ Leave
    /\ site' = "none"
    /\ UNCHANGED <<sysVars, ftVars, cjkVars, remembered, raw_result, notice, written>>

\* on_slider_change, lines 1159-1166: up to the call of generate_smart_srt
SliderChangeCall ==
    /\ site = "none"
    /\ dlg_open
    /\ \E min_len \in SliderValues : Enter(raw_result, IntVal(min_len))
    /\ site' = "slider"
    /\ UNCHANGED <<sysVars, ftVars, cjkVars, remembered, raw_result, editor_value, dlg_open,
                   notice, written>>

\* on_slider_change, lines 1166-1169: the editor gets the new document
SliderChangeReturn ==
    /\ site = "slider"
    /\ pc = "done"
    /\ editor_value' = ret
    /\ Leave
    /\ site' = "none"
    /\ UNCHANGED <<sysVars, ftVars, cjkVars, remembered, raw_result, dlg_open, notice, written>>

\* save_subtitle, lines 1190-1228: the content of the editor is written as
\* it is; open() or write() may fail, and write() fails on a value that is
\* no str
SaveSubtitle ==
    /\ site = "none"
    /\ dlg_open
    /\ \E ok \in BOOLEAN :
          IF ok /\ editor_value.t = "str"
          THEN /\ written' = editor_value
               /\ dlg_open' = FALSE
               /\ raw_result' = NoneVal
               /\ editor_value' = Str(<<>>)
               /\ notice' = "saved"
          ELSE /\ notice' = "save_error"
               /\ UNCHANGED <<written, dlg_open, raw_result, editor_value>>
    /\ UNCHANGED <<sysVars, ftVars, cjkVars, srtVars, remembered, site>>

\* lines 1267-1269: the button that closes the dialog
CloseDialog ==
    /\ site = "none"
    /\ dlg_open
    /\ dlg_open' = FALSE
    /\ raw_result' = NoneVal
    /\ editor_value' = Str(<<>>)
    /\ UNCHANGED <<sysVars, ftVars, cjkVars, srtVars, remembered, site, notice, written>>

InitApp == FtIdle /\ CjkIdle /\ SrtIdle /\ AppIdle

NextApp ==
    \/ ExportSubtitleCall
    \/ ExportSubtitleReturn
    \/ ShowEditorCall
    \/ ShowEditorReturn
    \/ SliderChangeCall
    \/ SliderChangeReturn
    \/ SaveSubtitle
    \/ CloseDialog
    \/ Normalize /\ UNCHANGED <<sysVars, ftVars, cjkVars, appVars>>
    \/ Resolve /\ UNCHANGED <<sysVars, ftVars, cjkVars, appVars>>
    \/ LoopRaise /\ UNCHANGED <<sysVars, ftVars, cjkVars, appVars>>
    \/ LoopStep /\ UNCHANGED <<sysVars, ftVars, cjkVars, appVars>>
    \/ Finish /\ UNCHANGED <<sysVars, ftVars, cjkVars, appVars>>
    \/ Except /\ UNCHANGED <<sysVars, ftVars, cjkVars, appVars>>

SpecApp == InitApp /\ [][NextApp]_vars

(***************************************************************************)
(* generate_smart_srt on intervals that hold values no time can be made of *)
(***************************************************************************)
\* an interval of integers, one whose start is None, one whose end is the
\* float 1500.0, one whose start is the str "12"
BadTimePairs ==
    {Pair(0, 3),
     List(<<NoneVal, IntVal(5)>>),
     List(<<IntVal(7), FloatVal(1500)>>),
     List(<<Str(<<49, 50>>), IntVal(9)>>)}

\* every short text over TimingAlphabet with every list of up to MaxTs
\* intervals from BadTimePairs
BadTimeCalls ==
    {Call(TextOnly(txt, List(ts)), IntVal(ml)) :
        txt \in SeqsUpTo(TimingAlphabet, MaxTextLen),
        ts \in SeqsUpTo(BadTimePairs, MaxTs),
        ml \in {1, 100}}

InitBadTimes ==
    /\ FtIdle
    /\ CjkIdle
    /\ AppIdle
    /\ \E c \in BadTimeCalls \cup FailingCalls :
          /\ inference_result = c.res
          /\ min_length = c.ml
    /\ data = NoneVal
    /\ text = Str(<<>>)
    /\ ts_list = List(<<>>)
    /\ srt_content = <<>>
    /\ sentence_idx = 1
    /\ ts_index = 0
    /\ curr_text = <<>>
    /\ curr_start = IntVal(-1)
    /\ curr_end = IntVal(0)
    /\ pos = 0
    /\ pc = "start"
    /\ ret = NoneVal
    /\ cues = <<>>
    /\ failed = FALSE

SpecBadTimes == InitBadTimes /\ [][Next]_vars

(***************************************************************************)
(* DatabaseHandler: the table tasks and the methods that write it          *)
(***************************************************************************)
\* the texts the code stores in column progress, in ASCII for the Chinese
\* literals of the source
ProgressSubmitted == "task submitted"

ProgressDone == "processing finished"

ProgressInterrupted == "task interrupted"

\* the row INSERT writes: result and audio_file_path are left NULL
Row(task_id, url) ==
    [id |-> task_id, url |-> url, status |-> "submitted",
     progress |-> ProgressSubmitted, result |-> NoneVal,
     audio_file_path |-> NoneVal]

HasTask(d, task_id) == \E i \in DOMAIN d : d[i].id = task_id

\* UPDATE tasks SET ... WHERE id = ?: the columns of set are written in
\* every row with that id, in no row otherwise
UpdateWhere(d, task_id, set) ==
    [i \in DOMAIN d |-> IF d[i].id = task_id THEN set @@ d[i] ELSE d[i]]

\* INSERT OR REPLACE in the place of INSERT
CreateTaskReplace(d, task_id, url) ==
    [db |-> IF HasTask(d, task_id)
            THEN UpdateWhere(d, task_id, Row(task_id, url))
            ELSE Append(d, Row(task_id, url)),
     ret |-> TRUE]

\* id is the primary key: INSERT on an id the table holds raises
\* IntegrityError, which the except clause turns into False
create_task(d, task_id, url) ==
    IF HasTask(d, task_id)
    THEN [db |-> d, ret |-> FALSE]
    ELSE [db |-> Append(d, Row(task_id, url)), ret |-> TRUE]

\* progress None keeps the column
update_task_status(d, task_id, status, progress) ==
    [db |-> UpdateWhere(d, task_id,
                IF progress = NoneVal
                THEN [status |-> status]
                ELSE [status |-> status, progress |-> progress.v]),
     ret |-> TRUE]

\* the caller never passes audio_file_path: the column is set to NULL
save_task_result(d, task_id, result) ==
    [db |-> UpdateWhere(d, task_id,
                [status |-> "completed", progress |-> ProgressDone,
                 result |-> result, audio_file_path |-> NoneVal]),
     ret |-> TRUE]

\* the message written, the status kept
SaveTaskErrorKeepsStatus(d, task_id, error_message) ==
    [db |-> UpdateWhere(d, task_id, [progress |-> error_message]),
     ret |-> TRUE]

save_task_error(d, task_id, error_message) ==
    [db |-> UpdateWhere(d, task_id,
                [status |-> "failed", progress |-> error_message]),
     ret |-> TRUE]

delete_task(d, task_id) ==
    [db |-> SelectSeq(d, LAMBDA r : r.id # task_id), ret |-> TRUE]

\* the row with that id, None if there is none
get_task_by_id(d, task_id) ==
    IF HasTask(d, task_id)
    THEN d[CHOOSE i \in DOMAIN d : d[i].id = task_id]
    ELSE NoneVal

\* ---- the inputs of the methods -----------------------------------------
TaskIds == {"t1", "t2"}

Urls == {"u1", "u2"}

\* a result mapping of the server; audio_url "" and datestr "" stand for a
\* mapping without the key
ResultMap(audio_url) ==
    [t |-> "dict", v |-> [audio_url |-> audio_url, datestr |-> ""]]

ResultPlain == ResultMap("")

ResultAudio == ResultMap("http://server/audio/t1.mp3")

Results == {ResultPlain, ResultAudio}

CreateTask ==
    \E id \in TaskIds, u \in Urls :
        /\ db' = create_task(db, id, u).db
        /\ db_ret' = BoolVal(create_task(db, id, u).ret)
        /\ db_op' = [op |-> "create_task", id |-> id]
        /\ UNCHANGED besideDb

UpdateTaskStatus ==
    \E id \in TaskIds, st \in {"processing", "failed"},
       p \in {NoneVal, Str("50%")} :
        /\ db' = update_task_status(db, id, st, p).db
        /\ db_ret' = BoolVal(update_task_status(db, id, st, p).ret)
        /\ db_op' = [op |-> "update_task_status", id |-> id]
        /\ UNCHANGED besideDb

SaveTaskResult ==
    \E id \in TaskIds, r \in Results :
        /\ db' = save_task_result(db, id, r).db
        /\ db_ret' = BoolVal(save_task_result(db, id, r).ret)
        /\ db_op' = [op |-> "save_task_result", id |-> id]
        /\ UNCHANGED besideDb

SaveTaskError ==
    \E id \in TaskIds :
        /\ db' = save_task_error(db, id, "HTTP error 500").db
        /\ db_ret' = BoolVal(save_task_error(db, id, "HTTP error 500").ret)
        /\ db_op' = [op |-> "save_task_error", id |-> id]
        /\ UNCHANGED besideDb

DeleteTask ==
    \E id \in TaskIds :
        /\ db' = delete_task(db, id).db
        /\ db_ret' = BoolVal(delete_task(db, id).ret)
        /\ db_op' = [op |-> "delete_task", id |-> id]
        /\ UNCHANGED besideDb

InitDb == FtIdle /\ CjkIdle /\ SrtIdle /\ AppIdle

NextDb ==
    \/ CreateTask
    \/ UpdateTaskStatus
    \/ SaveTaskResult
    \/ SaveTaskError
    \/ DeleteTask

SpecDb == InitDb /\ [][NextDb]_vars

(***************************************************************************)
(* load_history_tasks: the history list, and the recovery at startup       *)
(***************************************************************************)
\* the number of tasks load_history_tasks asks get_recent_tasks for
RecentLimit == 100

\* SELECT * FROM tasks ORDER BY created_at DESC LIMIT ?: the newest rows,
\* newest first
get_recent_tasks(d, limit) ==
    LET n == Len(d)
        k == IF limit < n THEN limit ELSE n
    IN  [j \in 1..k |-> d[n + 1 - j]]

\* the for loop of lines 601-603: one UPDATE ... WHERE id for every listed
\* task that is not completed; a row is written iff a listed task that is
\* not completed has its id
MarkInterrupted(d, tasks) ==
    [i \in DOMAIN d |->
        IF \E j \in DOMAIN tasks :
              tasks[j].id = d[i].id /\ tasks[j].status # "completed"
        THEN update_task_status(<<d[i]>>, d[i].id, "failed",
                                Str(ProgressInterrupted)).db[1]
        ELSE d[i]]

\* what a task card shows of its task
Card(task) == [id |-> task.id, status |-> task.status]

Cards(tasks) == List([j \in DOMAIN tasks |-> Card(tasks[j])])

\* load_history_tasks(clear)
LoadHistoryTasks(clear) ==
    LET tasks == get_recent_tasks(db, RecentLimit)
        marked == IF clear THEN MarkInterrupted(db, tasks) ELSE db
    IN  /\ db' = marked
        /\ history_list' = Cards(get_recent_tasks(marked, RecentLimit))
        /\ IF clear /\ \E j \in DOMAIN tasks : tasks[j].status # "completed"
           THEN /\ db_ret' = BoolVal(TRUE)
                /\ db_op' = [op |-> "update_task_status",
                             id |-> tasks[CHOOSE j \in DOMAIN tasks :
                                      /\ tasks[j].status # "completed"
                                      /\ \A k \in DOMAIN tasks :
                                            tasks[k].status # "completed"
                                                => k <= j].id]
           ELSE UNCHANGED <<db_ret, db_op>>

\* the call main makes once the page is built
StartupLoad ==
    /\ history_list = NoneVal
    /\ LoadHistoryTasks(TRUE)
    /\ UNCHANGED besideHist

\* a later refresh of the list
RefreshHistory ==
    /\ history_list # NoneVal
    /\ LoadHistoryTasks(FALSE)
    /\ UNCHANGED besideHist

\* ---- the tables the program can find at startup -------------------------
MaxStored == 3

\* a row as one of the statuses leaves it
StoredRow(task_id, kind) ==
    CASE kind = "submitted" -> Row(task_id, "u1")
      [] kind = "processing" ->
            [Row(task_id, "u1") EXCEPT !.status = "processing",
                                       !.progress = "50%"]
      [] kind = "completed" ->
            [Row(task_id, "u1") EXCEPT !.status = "completed",
                                       !.progress = ProgressDone,
                                       !.result = ResultPlain]
      [] kind = "failed" ->
            [Row(task_id, "u1") EXCEPT !.status = "failed",
                                       !.progress = "HTTP error 500"]

RowKinds == {"submitted", "processing", "completed", "failed"}

\* every table of up to MaxStored rows
SmallTables ==
    UNION {{[i \in 1..n |-> StoredRow(ToString(i), ks[i])] :
                ks \in [1..n -> RowKinds]} : n \in 0..MaxStored}

\* tables around the limit: the oldest row of one kind, the others of one
\* kind
LargeTables ==
    {[i \in 1..n |-> StoredRow(ToString(i), IF i = 1 THEN k1 ELSE k2)] :
        n \in {RecentLimit - 1, RecentLimit, RecentLimit + 1},
        k1 \in RowKinds, k2 \in RowKinds}

StoredTables == SmallTables \cup LargeTables

InitStartup ==
    /\ FtIdle /\ CjkIdle /\ SrtIdle
    /\ remembered = NoneVal
    /\ site = "none"
    /\ raw_result = NoneVal
    /\ editor_value = Str(<<>>)
    /\ dlg_open = FALSE
    /\ notice = "none"
    /\ written = NoneVal
    /\ db \in StoredTables
    /\ db_ret = NoneVal
    /\ db_op = [op |-> "none", id |-> "none"]
    /\ HistIdle
    /\ PollIdle
    /\ SubmitIdle

NextStartup ==
    \/ StartupLoad
    \/ RefreshHistory

SpecStartup == InitStartup /\ [][NextStartup]_vars

(***************************************************************************)
(* TaskStatusPoller: start_polling, update_ui_with_result,                 *)
(* save_result_to_db (main.py), and the audio functions it calls           *)
(***************************************************************************)
\* the task the poller was constructed for
PollTaskId == "t1"

\* status requests are counted up to this number, and go on beyond it
MaxPolls == 3

TerminalStatuses == {"completed", "failed"}

\* ---- calls of plain functions with positional arguments ----------------
\* def download_audio_file(task_id, audio_url, db_handler, date_str=...,
\* uploader=..., title=...): three required parameters, six in all
DownloadRequired == 3

DownloadParams == 6

\* def cleanup_remote_audio(task_id)
CleanupParams == 1

\* the positional arguments save_result_to_db passes to each
DownloadPassed == 9

CleanupPassed == 3

\* a positional call binds iff every required parameter gets an argument
\* and no argument is left over; otherwise the call raises TypeError
Binds(required, params, passed) == required <= passed /\ passed <= params

\* ---- what a status request comes back with -----------------------------
\* HTTP 200 with the JSON object the service sends for the task
OkResponse(srv) ==
    [kind |-> "json", http |-> 200, status |-> srv.status,
     progress |-> IF srv.status = "completed" THEN "100%" ELSE "50%",
     result |-> IF srv.status = "completed" THEN srv.result ELSE NoneVal]

\* HTTP 200 with a JSON body that is no object
ListResponse ==
    [kind |-> "list", http |-> 200, status |-> "none", progress |-> "none",
     result |-> NoneVal]

\* any other HTTP status
HttpErrorResponse(code) ==
    [kind |-> "http", http |-> code, status |-> "none", progress |-> "none",
     result |-> NoneVal]

\* the request or response.json() raised: connection refused, timeout,
\* a body that is no JSON
RaisedResponse ==
    [kind |-> "raised", http |-> 0, status |-> "none", progress |-> "none",
     result |-> NoneVal]

Responses(srv) ==
    {OkResponse(srv), ListResponse, HttpErrorResponse(500),
     HttpErrorResponse(404), RaisedResponse}

\* the texts start_polling and save_result_to_db build for a failure
HttpErrorMsg(code) == "HTTP error " \o ToString(code)

PollErrorMsg == "poll error: exception"

SaveErrorMsg == "error while saving the result: exception"

\* result["result"]["datestr"] = f"{now:%y%m%d}"
WithDatestr(result) ==
    IF result.t = "dict" THEN [result EXCEPT !.v.datestr = "yymmdd"] ELSE result

\* save_result_to_db(result, loop): the value of the table and the last
\* line shown when it returns; every exception is caught inside
save_result_to_db(d, task_id, result) ==
    LET saved == save_task_result(d, task_id, result).db
    IN  IF result.v.audio_url = ""
        THEN [db |-> saved, display |-> "result saved"]
        ELSE IF ~Binds(DownloadRequired, DownloadParams, DownloadPassed)
             THEN \* TypeError from the call of download_audio_file
                  [db |-> save_task_error(saved, task_id, SaveErrorMsg).db,
                   display |-> SaveErrorMsg]
             ELSE IF ~Binds(CleanupParams, CleanupParams, CleanupPassed)
                  THEN \* TypeError from the call of cleanup_remote_audio
                       [db |-> save_task_error(saved, task_id, SaveErrorMsg).db,
                        display |-> SaveErrorMsg]
                  ELSE \* both calls bind: the file is fetched and the
                       \* remote copy removed
                       [db |-> saved, display |-> "audio downloaded"]

\* the loop left on 'completed' alone
ContinuesUnlessCompleted(resp, raised) ==
    resp.kind = "json" /\ ~raised /\ resp.status # "completed"

\* the loop goes on iff the response was HTTP 200 with a status other than
\* completed and failed and nothing was raised while it was applied
Continues(resp, raised) ==
    /\ resp.kind = "json"
    /\ ~raised
    /\ resp.status \notin TerminalStatuses

\* update_ui_with_result(result): the table, the history list and the
\* status area when it returns, and whether it raised
update_ui_with_result(d, hist, resp) ==
    IF ~HasTask(d, PollTaskId)
    THEN \* None.get: AttributeError at the first line
         [db |-> d, hist |-> hist, display |-> status_display, raised |-> TRUE]
    ELSE IF resp.kind = "list"
    THEN \* list.get: AttributeError at the second line
         [db |-> d, hist |-> hist, display |-> status_display, raised |-> TRUE]
    ELSE
    LET old_status == get_task_by_id(d, PollTaskId).status
        updated == update_task_status(d, PollTaskId, resp.status,
                                      Str(resp.progress)).db
        saved == IF resp.status = "completed"
                 THEN save_result_to_db(updated, PollTaskId,
                                        WithDatestr(resp.result))
                 ELSE [db |-> updated, display |-> resp.status]
        refresh == old_status # resp.status /\ resp.status \in TerminalStatuses
    IN  [db |-> saved.db,
         hist |-> IF refresh
                  THEN Cards(get_recent_tasks(saved.db, RecentLimit))
                  ELSE hist,
         display |-> saved.display,
         raised |-> FALSE]

\* page.run_task(poller.start_polling): up to the first test of the loop
StartPolling ==
    /\ poll_pc = "new"
    /\ is_polling' = TRUE
    /\ poll_pc' = "request"
    /\ UNCHANGED <<server, response, polls, status_display>>
    /\ UNCHANGED <<besidePoll, dbVars, histVars>>

\* one turn of the loop: the request, and what is done with the response up
\* to the next await that ends the turn
PollOnce ==
    /\ poll_pc = "request"
    /\ is_polling
    /\ \E resp \in Responses(server) :
          LET applied == update_ui_with_result(db, history_list, resp)
              raised == resp.kind = "raised"
                        \/ (resp.http = 200 /\ applied.raised)
          IN  /\ response' = [resp EXCEPT !.kind =
                                IF raised THEN "raised" ELSE resp.kind]
              /\ polls' = IF polls < MaxPolls THEN polls + 1 ELSE polls
              /\ IF resp.http = 200 /\ ~applied.raised
                 THEN /\ db' = applied.db
                      /\ history_list' = applied.hist
                      /\ status_display' = applied.display
                      /\ db_op' = [op |-> "update_task_status", id |-> PollTaskId]
                      /\ db_ret' = BoolVal(TRUE)
                      /\ IF Continues(resp, raised)
                         THEN /\ poll_pc' = "sleep"
                              /\ UNCHANGED is_polling
                         ELSE /\ poll_pc' = "stopped"
                              /\ is_polling' = FALSE
                 ELSE \* update_status_display(error_msg), then the await of
                      \* save_task_error
                      /\ status_display' = IF raised THEN PollErrorMsg
                                           ELSE HttpErrorMsg(resp.http)
                      /\ poll_pc' = "record"
                      /\ UNCHANGED <<db, db_ret, db_op, history_list,
                                     is_polling>>
    /\ UNCHANGED server
    /\ UNCHANGED besidePoll

\* the failure is written, then is_polling is cleared and the loop left
RecordFailure ==
    /\ poll_pc = "record"
    /\ db' = save_task_error(db, PollTaskId, status_display).db
    /\ db_ret' = BoolVal(TRUE)
    /\ db_op' = [op |-> "save_task_error", id |-> PollTaskId]
    /\ is_polling' = FALSE
    /\ poll_pc' = "stopped"
    /\ UNCHANGED <<server, response, polls, status_display>>
    /\ UNCHANGED <<besidePoll, histVars>>

\* await asyncio.sleep(2), then the test of the loop
Sleep ==
    /\ poll_pc = "sleep"
    /\ poll_pc' = "request"
    /\ UNCHANGED <<is_polling, server, response, polls, status_display>>
    /\ UNCHANGED <<besidePoll, dbVars, histVars>>

\* the remote service works on the task: a terminal status is kept
ServerAdvance ==
    /\ server.status \notin TerminalStatuses
    /\ \E st \in {"processing", "completed", "failed"} :
          /\ st # server.status
          /\ server' = [server EXCEPT !.status = st]
    /\ UNCHANGED <<is_polling, poll_pc, response, polls, status_display>>
    /\ UNCHANGED <<besidePoll, dbVars, histVars>>

\* after on_submit_click: the poller is constructed; the row of the task is
\* there, alone or after another task's, or create_task had failed
InitPoller ==
    /\ FtIdle /\ CjkIdle /\ SrtIdle
    /\ remembered = NoneVal
    /\ site = "none"
    /\ raw_result = NoneVal
    /\ editor_value = Str(<<>>)
    /\ dlg_open = FALSE
    /\ notice = "none"
    /\ written = NoneVal
    /\ db \in {<<>>, <<Row(PollTaskId, "u1")>>,
               <<StoredRow("t2", "completed"), Row(PollTaskId, "u1")>>}
    /\ db_ret = NoneVal
    /\ db_op = [op |-> "none", id |-> "none"]
    /\ history_list = Cards(get_recent_tasks(db, RecentLimit))
    /\ is_polling = FALSE
    /\ poll_pc = "new"
    /\ server \in {[status |-> "pending", result |-> r] : r \in Results}
    /\ response = NoneVal
    /\ polls = 0
    /\ status_display = "task submitted"
    /\ SubmitIdle

NextPoller ==
    \/ StartPolling
    \/ PollOnce
    \/ RecordFailure
    \/ Sleep
    \/ ServerAdvance

SpecPoller == InitPoller /\ [][NextPoller]_vars

\* the event loop runs every coroutine that is ready: the poller is
\* started, a request ends (with a response or, after 30 s, an exception),
\* an executor call ends, a sleep ends
SpecPollerLive ==
    /\ SpecPoller
    /\ WF_vars(StartPolling)
    /\ WF_vars(PollOnce)
    /\ WF_vars(RecordFailure)
    /\ WF_vars(Sleep)

(***************************************************************************)
(* on_submit_click, the browser dropdown and get_cookies_via_rookie        *)
(***************************************************************************)
\* the options of browser_dropdown
BrowserOptions == {"Firefox", "Edge", "Chrome"}

\* Python ==: values of different types are never equal
PyEq(a, b) == a.t = b.t /\ a.v = b.v

\* get_cookies_via_rookie(browser_name): the cookie store it asks rookiepy
\* for, or ValueError; the third test compares the name with a list
get_cookies_via_rookie(browser_name) ==
    IF browser_name \in {Str("chrome"), Str("Chrome")}
    THEN [raised |-> FALSE, store |-> "chrome"]
    ELSE IF browser_name \in {Str("firefox"), Str("Firefox")}
    THEN [raised |-> FALSE, store |-> "firefox"]
    ELSE IF PyEq(browser_name, List(<<Str("edge"), Str("Edge")>>))
    THEN [raised |-> FALSE, store |-> "edge"]
    ELSE [raised |-> TRUE, store |-> "none"]

\* f"... {str(ex)}" of the inner except clause
CookieErrorMsg(ex) == "cookie error: " \o ex

UnsupportedBrowser == "unsupported browser"

\* what lies outside the handler: whether a widget call raises, whether
\* rookiepy can read the store, whether encrypt_data raises, whether the
\* service accepts the task
Outcomes ==
    [unexpected : BOOLEAN, read : {"cookies", "raises"},
     encrypt : {"ok", "raises"}, request : {"accepted", "refused"}]

\* the path on_submit_click leaves its try statement by
ExitPath(url, browser, use_cookie, o) ==
    IF url = "" THEN "empty_url"
    ELSE IF o.unexpected THEN "exception"
    ELSE IF use_cookie /\ get_cookies_via_rookie(Str(browser)).raised
    THEN "cookie_error"
    ELSE IF use_cookie /\ o.read = "raises" THEN "cookie_error"
    ELSE IF use_cookie /\ o.encrypt = "raises" THEN "encrypt_error"
    ELSE IF o.request = "refused" THEN "request_failed"
    ELSE "success"

\* the button when the handler returns if only the end of the try block
\* reset it
ButtonAtEndOfTry(exit) ==
    IF exit \in {"success", "request_failed"} THEN IdleButton ELSE BusyButton

\* the finally clause runs on every path
ButtonOnReturn(exit) == IdleButton

\* lines 437-439: the click disables the button
SubmitClick ==
    /\ submit_pc = "idle"
    /\ ~submit_button.disabled
    /\ submit_button' = BusyButton
    /\ submit_pc' = "running"
    /\ UNCHANGED <<submit_exit, url_input, browser_dropdown, cookie_checkbox,
                   cookies_read, snack_bar>>
    /\ UNCHANGED <<coreVars, dbVars, histVars, pollVars>>

\* lines 440-540: the try statement with its except and finally clauses
SubmitRun ==
    /\ submit_pc = "running"
    /\ \E o \in Outcomes :
        LET exit == ExitPath(url_input, browser_dropdown, cookie_checkbox, o)
            cookies == get_cookies_via_rookie(Str(browser_dropdown))
            created == create_task(db, PollTaskId, url_input)
        IN  /\ submit_exit' = exit
            /\ submit_button' = ButtonOnReturn(exit)
            /\ submit_pc' = "idle"
            /\ cookies_read' =
                  IF /\ exit \notin {"empty_url", "exception"}
                     /\ cookie_checkbox
                     /\ ~cookies.raised
                  THEN cookies.store
                  ELSE cookies_read
            /\ snack_bar' =
                  CASE exit = "empty_url" -> "please enter a link"
                    [] exit = "exception" -> "an error occurred"
                    [] OTHER -> snack_bar
            /\ status_display' =
                  CASE exit = "empty_url" -> status_display
                    [] exit = "exception" -> "processing..."
                    [] exit = "cookie_error" ->
                          CookieErrorMsg(IF cookies.raised
                                         THEN UnsupportedBrowser
                                         ELSE "read failed")
                    [] exit = "encrypt_error" -> CookieErrorMsg("encryption failed")
                    [] exit = "request_failed" -> "submit failed"
                    [] exit = "success" ->
                          IF created.ret THEN "task submitted"
                                         ELSE "task not saved"
            /\ IF exit = "success"
               THEN /\ db' = created.db
                    /\ db_ret' = BoolVal(created.ret)
                    /\ db_op' = [op |-> "create_task", id |-> PollTaskId]
                    /\ is_polling' = FALSE
                    /\ poll_pc' = "new"
                    /\ response' = NoneVal
                    /\ polls' = 0
                    /\ history_list' =
                          Cards(get_recent_tasks(created.db, RecentLimit))
                    /\ url_input' = ""
               ELSE UNCHANGED <<db, db_ret, db_op, is_polling, poll_pc,
                                response, polls, history_list, url_input>>
    /\ UNCHANGED <<server, browser_dropdown, cookie_checkbox>>
    /\ UNCHANGED coreVars

\* the user fills the form while no submission runs
EditForm ==
    /\ submit_pc = "idle"
    /\ \E u \in Urls \cup {""}, b \in BrowserOptions, c \in BOOLEAN :
          /\ url_input' = u
          /\ browser_dropdown' = b
          /\ cookie_checkbox' = c
    /\ UNCHANGED <<submit_button, submit_pc, submit_exit, cookies_read,
                   snack_bar>>
    /\ UNCHANGED <<coreVars, dbVars, histVars, pollVars>>

\* the page after startup: the form as built, the history loaded
InitSubmit ==
    /\ FtIdle /\ CjkIdle /\ SrtIdle
    /\ remembered = NoneVal
    /\ site = "none"
    /\ raw_result = NoneVal
    /\ editor_value = Str(<<>>)
    /\ dlg_open = FALSE
    /\ notice = "none"
    /\ written = NoneVal
    /\ db \in {<<>>, <<StoredRow(PollTaskId, "completed")>>}
    /\ db_ret = NoneVal
    /\ db_op = [op |-> "none", id |-> "none"]
    /\ history_list = Cards(get_recent_tasks(db, RecentLimit))
    /\ PollIdle
    /\ SubmitIdle

NextSubmit ==
    \/ SubmitClick
    \/ SubmitRun
    \/ EditForm

SpecSubmit == InitSubmit /\ [][NextSubmit]_vars

\* the handler runs to its end: every call it makes returns or raises (the
\* request has a timeout of 30 s)
SpecSubmitLive == SpecSubmit /\ WF_vars(SubmitRun)

(***************************************************************************)
(* Properties of format_time                                               *)
(***************************************************************************)
IsDigit(c) == c \in 48..57

RECURSIVE ParseNat(_)
\* the number a string of digits denotes
ParseNat(d) ==
    IF d = <<>> THEN 0
    ELSE 10 * ParseNat(SubSeq(d, 1, Len(d) - 1)) + (d[Len(d)] - 48)

\* C6: format_time returns "00:00:00,000" for every negative integer and
\* every non-numeric value.
C6_FallbackOnNegativeOrNonNumeric ==
    (/\ ft_pc = "done"
     /\ \/ ft_arg.t = "int" /\ ft_arg.v < 0
        \/ ft_arg.t \in {"none", "str", "list"})
    => ft_ret = FallbackTime

\* C7: for every integer ms >= 0 format_time returns HH:MM:SS,mmm with
\* HH = ms div 3600000 in at least two digits (more from 100 hours on),
\* MM = (ms div 60000) mod 60, SS = (ms div 1000) mod 60, mmm = ms mod 1000,
\* zero-padded to 2, 2 and 3 digits; format_time(0) = "00:00:00,000",
\* format_time(61000) = "00:01:01,000", format_time(3600000) = "01:00:00,000".
C7_FormatTimeFields ==
    (ft_pc = "done" /\ ft_arg.t = "int" /\ ft_arg.v >= 0) =>
        LET r  == ft_ret
            n  == Len(r)
            ms == ft_arg.v
            hh == SubSeq(r, 1, n - 10)
        IN  /\ n >= 12
            /\ r[n - 9] = 58 /\ r[n - 6] = 58 /\ r[n - 3] = 44
            /\ \A j \in (1..n) \ {n - 9, n - 6, n - 3} : IsDigit(r[j])
            /\ ParseNat(hh) = ms \div 3600000
            /\ Len(hh) = 2 \/ hh[1] # 48
            /\ ParseNat(SubSeq(r, n - 8, n - 7)) = (ms \div 60000) % 60
            /\ ParseNat(SubSeq(r, n - 5, n - 4)) = (ms \div 1000) % 60
            /\ ParseNat(SubSeq(r, n - 2, n)) = ms % 1000
            /\ ms = 0 => r = <<48, 48, 58, 48, 48, 58, 48, 48, 44, 48, 48, 48>>
            /\ ms = 61000 => r = <<48, 48, 58, 48, 49, 58, 48, 49, 44, 48, 48, 48>>
            /\ ms = 3600000 => r = <<48, 49, 58, 48, 48, 58, 48, 48, 44, 48, 48, 48>>

\* 100 hours, 59 minutes, 59 seconds and 999 ms have been formatted, in three
\* digits of hours
C7_Witness ==
    /\ ft_pc = "done"
    /\ ft_arg = IntVal(100 * 3600000 + 59 * 60000 + 59 * 1000 + 999)
    /\ ft_ret = <<49, 48, 48, 58, 53, 57, 58, 53, 57, 44, 57, 57, 57>>

(***************************************************************************)
(* Properties of is_mainly_cjk                                             *)
(***************************************************************************)
\* CJK Unified Ideographs, Hiragana, Katakana, Hangul Syllables
InCjkBlocks(c) ==
    \/ 19968 <= c /\ c <= 40959
    \/ 12352 <= c /\ c <= 12447
    \/ 12448 <= c /\ c <= 12543
    \/ 44032 <= c /\ c <= 55215

\* more than 15% of the first 500 characters of s lie in the four blocks
MostlyCjk(s) ==
    LET n == IF Len(s) > 500 THEN 500 ELSE Len(s)
        k == Cardinality({j \in 1..n : InCjkBlocks(s[j])})
    IN  n > 0 /\ 20 * k > 3 * n

C9_NeverRaises == cjk_pc # "raised"

(***************************************************************************)
(* Properties of generate_smart_srt                                        *)
(***************************************************************************)
\* the hard-break characters: 。 ？ ！ ； ： ? ! ; : and the newline
HardBreaks == {12290, 65311, 65281, 65307, 65306, 63, 33, 59, 58, 10}

\* the soft-break characters: ， 、 , . and the space
SoftBreaks == {65292, 12289, 44, 46, 32}

AllSpace(s, from, to) == \A q \in from..to : IsSpace(s[q])

NonSpace(s) == SelectSeq(s, LAMBDA c : ~IsSpace(c))

\* txt is s[lo..hi] with nothing but whitespace removed at its two ends
Trimmed(txt, s, lo, hi) ==
    \E a \in lo..(hi + 1) : \E b \in (a - 1)..hi :
        /\ txt = SubSeq(s, a, b)
        /\ AllSpace(s, lo, a - 1)
        /\ AllSpace(s, b + 1, hi)

RECURSIVE CueTexts(_)
\* the texts of the cues, concatenated in index order
CueTexts(cs) == IF cs = <<>> THEN <<>> ELSE Head(cs).text \o CueTexts(Tail(cs))

IsCall(txt, n, ml) ==
    /\ inference_result = TextOnly(txt, Intervals(n))
    /\ min_length = IntVal(ml)

\* the document of the text "你好。再见！" with four intervals of 100 ms
HardExampleDocument ==
    <<49, 10, 48, 48, 58, 48, 48, 58, 48, 48, 44, 48, 48, 48, 32, 45,
      45, 62, 32, 48, 48, 58, 48, 48, 58, 48, 48, 44, 50, 48, 48, 10,
      20320, 22909, 12290, 10, 10, 50, 10, 48, 48, 58, 48, 48, 58, 48,
      48, 44, 50, 48, 48, 32, 45, 45, 62, 32, 48, 48, 58, 48, 48, 58,
      48, 48, 44, 52, 48, 48, 10, 20877, 35265, 65281, 10, 10>>

\* C1: a hard-break character ends the current clause whatever min_length
\* is: every cue comes from a span of the text, and no cue holds
\* non-whitespace characters from both sides of a hard-break character of
\* its span; "你好。再见！" with min_length 100 yields exactly two cues.
C1_HardBreakForcing ==
    /\ \A k \in 1..Len(cues) :
          LET c == cues[k]
          IN  /\ 1 <= c.lo /\ c.lo <= c.hi /\ c.hi <= pos
              /\ Trimmed(c.text, text.v, c.lo, c.hi)
              /\ \A p \in c.lo..c.hi :
                    text.v[p] \in HardBreaks =>
                        \/ AllSpace(text.v, c.lo, p - 1)
                        \/ AllSpace(text.v, p + 1, c.hi)
    /\ (pc = "done" /\ IsCall(TextHardExample, 4, 100)) =>
          /\ Len(cues) = 2
          /\ ret = Str(HardExampleDocument)

\* min_length is 100 and two cues have been emitted, the first ending with a
\* hard break after which the text goes on
C1_Witness ==
    /\ pc = "done"
    /\ min_length = IntVal(100)
    /\ Len(cues) = 2
    /\ text.v[cues[1].hi] \in HardBreaks
    /\ ~IsSpace(text.v[cues[1].lo])
    /\ ~IsSpace(text.v[cues[2].hi])

\* an iteration of the loop on a soft-break character
SoftStep ==
    /\ pc = "loop"
    /\ pc' = "loop"
    /\ pos' = pos + 1
    /\ text.v[pos'] \in SoftBreaks

\* the iteration emitted a cue and started a new clause
Flushed ==
    /\ Len(cues') = Len(cues) + 1
    /\ cues'[Len(cues')].hi = pos'
    /\ curr_text' = <<>>

\* the iteration kept the clause open, the character appended
Absorbed ==
    /\ cues' = cues
    /\ curr_text' = curr_text \o <<text.v[pos']>>

IsIntervalList(x) ==
    /\ x.t = "list"
    /\ \A j \in 1..Len(x.v) : x.v[j].t \in {"list", "tuple"} /\ Len(x.v[j].v) = 2

\* C3: for every text, list of intervals and integer min_length the call
\* runs to the end of the text and the cues, in index order, hold the text
\* with only whitespace removed at the clause boundaries: the spans of the
\* cues follow one another from the first character on, each cue is its span
\* trimmed, what follows the last span is whitespace, and the non-whitespace
\* characters of the cues are those of the text in their order.
C3_NoContentLoss ==
    (/\ pc = "done"
     /\ data.t = "dict"
     /\ {"text", "transcription"} \cap data.v.keys # {}
     /\ text.t = "str"
     /\ IsIntervalList(ts_list)
     /\ min_length.t = "int") =>
        LET n == Len(cues)
        IN  /\ ~failed
            /\ pos = Len(text.v)
            /\ \A k \in 1..n :
                  /\ cues[k].idx = k
                  /\ cues[k].lo = IF k = 1 THEN 1 ELSE cues[k - 1].hi + 1
                  /\ Trimmed(cues[k].text, text.v, cues[k].lo, cues[k].hi)
            /\ AllSpace(text.v, IF n = 0 THEN 1 ELSE cues[n].hi + 1, Len(text.v))
            /\ NonSpace(CueTexts(cues)) = NonSpace(text.v)

\* a text whose last clause never reached a break has been segmented into
\* two cues or more
C3_Witness ==
    /\ pc = "done"
    /\ ~failed
    /\ Len(cues) >= 2
    /\ cues[Len(cues)].hi = Len(text.v)
    /\ text.v[Len(text.v)] \notin HardBreaks \cup SoftBreaks
    /\ ~IsSpace(text.v[Len(text.v)])

\* C4 as stated: a result mapping with the key srt is answered with the
\* value of that field, whatever its other keys.
C4_SrtAlwaysPassedThrough ==
    (pc = "done" /\ data.t = "dict" /\ "srt" \in data.v.keys) => ret = data.v.srt

\* C4 as amended: a result mapping with the key srt and neither the key text
\* nor the key transcription is answered with the value of the field srt,
\* for every min_length and whatever its field timestamp.
C4_SrtPassThrough ==
    (/\ pc = "done"
     /\ data.t = "dict"
     /\ "srt" \in data.v.keys
     /\ "text" \notin data.v.keys
     /\ "transcription" \notin data.v.keys)
    => ret = data.v.srt /\ ~failed /\ cues = <<>>

\* a mapping with the keys srt and timestamp, the latter no list, and a
\* min_length of None has been answered with the field srt
C4_Witness ==
    /\ pc = "done"
    /\ data.t = "dict"
    /\ data.v.keys = {"srt", "timestamp"}
    /\ data.v.timestamp = NoneVal
    /\ min_length = NoneVal
    /\ ret = ShapeSrt

\* C5: the text segmented is the field text when the mapping has that key,
\* else the field transcription when it has that one; the field srt is
\* returned only when it has neither; every cue of a mapping with both keys
\* comes from the field text.
C5_TextSourcePriority ==
    (data.t = "dict" /\ pc \in {"loop", "except", "done"}) =>
        LET d == data.v
        IN  /\ "text" \in d.keys => text = d.text
            /\ ("text" \notin d.keys /\ "transcription" \in d.keys)
                   => text = d.transcription
            /\ ("text" \in d.keys \/ "transcription" \in d.keys) =>
                   /\ pc = "done" => ret \in {Str(<<>>), Str(srt_content)}
                   /\ \A k \in 1..Len(cues) :
                         Trimmed(cues[k].text, text.v, cues[k].lo, cues[k].hi)
            /\ ("text" \notin d.keys /\ "transcription" \notin d.keys
                /\ "srt" \in d.keys) => pc = "done" /\ ret = d.srt

\* a mapping with the keys text, transcription and srt has been segmented
\* from its field text, which differs from its field transcription
C5_Witness ==
    /\ pc = "done"
    /\ data.t = "dict"
    /\ {"text", "transcription", "srt"} \subseteq data.v.keys
    /\ data.v.text # data.v.transcription
    /\ Len(cues) = 2
    /\ cues[1].text = <<97, 12290>>
    /\ cues[2].text = <<97, 44>>

\* C10: generate_smart_srt returns in every case, and a call in which
\* anything failed returns the empty string: what is returned is the empty
\* string, the field srt of the pass-through, or the document of a loop that
\* ran to the end of the text without failure.
C10_FailureReturnsEmpty ==
    /\ pc \in {"start", "resolve", "loop", "except", "done"}
    /\ failed => pc = "done" /\ ret = Str(<<>>)
    /\ pc = "done" =>
          \/ ret = Str(<<>>)
          \/ /\ data.t = "dict"
             /\ "srt" \in data.v.keys
             /\ ret = data.v.srt
          \/ /\ ~failed
             /\ text.t = "str"
             /\ pos = Len(text.v)
             /\ ret = Str(srt_content)
    /\ (pc = "done" /\ inference_result = List(<<>>)) => ret = Str(<<>>)
    /\ (pc = "done" /\ text.t # "str") => ret = Str(<<>>)
    /\ (pc = "done" /\ text.t = "str" /\ pos < Len(text.v)) => ret = Str(<<>>)

\* a call failed after a cue had been accumulated and returned the empty
\* string
C10_Witness ==
    /\ pc = "done"
    /\ failed
    /\ srt_content # <<>>
    /\ ret = Str(<<>>)

(***************************************************************************)
(* Properties of the input handling of generate_smart_srt                  *)
(***************************************************************************)
\* the result object a call is about: the first element of a list, else the
\* argument itself
ResultObject(x) == IF x.t = "list" /\ x.v # <<>> THEN x.v[1] ELSE x

\* the mapping d names a text field and that field holds the empty string
EmptyTextField(d) ==
    \/ "text" \in d.keys /\ d.text = Str(<<>>)
    \/ "text" \notin d.keys /\ "transcription" \in d.keys
       /\ d.transcription = Str(<<>>)

\* C11: a call on a degenerate input returns the empty string: a result
\* that is no mapping, a mapping whose text is empty, a mapping with none of
\* the keys text, transcription, srt.  Nothing fails on the way, except for
\* the empty list, whose failure is contained.
C11_DegenerateInputEmpty ==
    pc = "done" =>
        LET d == ResultObject(inference_result)
        IN  (\/ d.t # "dict"
             \/ d.t = "dict" /\ EmptyTextField(d.v)
             \/ d.t = "dict" /\ d.v.keys \cap {"text", "transcription", "srt"} = {})
            => /\ ret = Str(<<>>)
               /\ inference_result # List(<<>>) => ~failed

\* a mapping with an empty text and a non-empty interval list has returned
C11_Witness ==
    /\ pc = "done"
    /\ data.t = "dict"
    /\ "text" \in data.v.keys
    /\ data.v.text = Str(<<>>)
    /\ data.v.timestamp = Intervals(2)
    /\ ret = Str(<<>>)
    /\ ~failed

\* the mapping d carries a text to segment: a text field that is a str
\* (the field text before the field transcription)
SegmentedText(d) ==
    IF "text" \in d.keys THEN d.text
    ELSE IF "transcription" \in d.keys THEN d.transcription
    ELSE NoneVal

\* C12: a mapping whose field timestamp is absent, or present but no list
\* (None), is segmented as with timestamp = []: the call does not fail, the
\* whole text is walked, a text with a non-whitespace character yields a
\* cue, and every cue is timed 0 --> 0.
C12_MissingTimestampAsEmpty ==
    (/\ pc = "done"
     /\ data.t = "dict"
     /\ SegmentedText(data.v).t = "str"
     /\ min_length.t = "int"
     /\ \/ "timestamp" \notin data.v.keys
        \/ data.v.timestamp.t # "list")
    => /\ ~failed
       /\ pos = Len(text.v)
       /\ ret = Str(srt_content)
       /\ NonSpace(text.v) # <<>> => cues # <<>>
       /\ \A k \in 1..Len(cues) :
             cues[k].start = IntVal(0) /\ cues[k].end = IntVal(0)

(***************************************************************************)
(* Properties of the cue times                                             *)
(***************************************************************************)
\* a content character: no hard break, no soft break, no whitespace
IsContent(c) == c \notin HardBreaks /\ c \notin SoftBreaks /\ ~IsSpace(c)

\* the number of content characters among the first n characters of s
ContentCount(s, n) == Cardinality({q \in 1..n : IsContent(s[q])})

\* the number of intervals that the first n characters of the text receive:
\* one per content character, in order, while the list lasts
Covered(n) ==
    LET k == ContentCount(text.v, n)
    IN  IF k < Len(ts_list.v) THEN k ELSE Len(ts_list.v)

\* the end of the k-th interval, 0 before any interval
EndOf(k) == IF k = 0 THEN IntVal(0) ELSE ts_list.v[k].v[2]

StartOf(k) == ts_list.v[k].v[1]

\* a call on a mapping with a text, a list of integer pairs and an integer
\* threshold
WellFormedCall ==
    /\ pc \in {"loop", "done"}
    /\ data.t = "dict"
    /\ SegmentedText(data.v).t = "str"
    /\ text.t = "str"
    /\ IsIntervalList(ts_list)
    /\ min_length.t = "int"

\* C13: with fewer intervals than content characters every clause is still
\* emitted (the call does not fail and the cues carry every non-whitespace
\* character); a cue none of whose characters received an interval starts
\* and ends at the end of the last interval consumed before it (0 if none);
\* every cue, one whose intervals ran out midway included, ends at the end
\* of the last interval consumed.
C13_ExhaustionFallback ==
    WellFormedCall =>
        /\ pc = "done" => /\ ~failed
                          /\ NonSpace(CueTexts(cues)) = NonSpace(text.v)
        /\ \A k \in 1..Len(cues) :
              LET before  == Covered(cues[k].lo - 1)
                  through == Covered(cues[k].hi)
              IN  /\ cues[k].end = EndOf(through)
                  /\ through = before => cues[k].start = EndOf(before)

\* "a。a" with the one interval (0, 3): the second cue has no interval and
\* is timed 3 --> 3
C13_Witness ==
    /\ pc = "done"
    /\ text = Str(<<97, 12290, 97>>)
    /\ ts_list = List(<<Pair(0, 3)>>)
    /\ Len(cues) = 2
    /\ cues[1].start = IntVal(0) /\ cues[1].end = IntVal(3)
    /\ cues[2].start = IntVal(3) /\ cues[2].end = IntVal(3)
    /\ cues[2].text = <<97>>

\* C14: for every text, threshold and list of integer pairs, a cue with a
\* content character that received an interval starts at the start of the
\* interval of its first such character and ends at the end of the interval
\* of its last such character.
C14_CueTiming ==
    WellFormedCall =>
        \A k \in 1..Len(cues) :
            LET before  == Covered(cues[k].lo - 1)
                through == Covered(cues[k].hi)
            IN  through > before =>
                    /\ cues[k].start = StartOf(before + 1)
                    /\ cues[k].end = EndOf(through)

\* the position after the last cue emitted so far
LastHi == IF cues = <<>> THEN 0 ELSE cues[Len(cues)].hi

\* C15: the interval pointer is the number of content characters walked so
\* far, capped at the length of the list: one more per content character
\* while intervals remain, none for punctuation or whitespace, never beyond
\* the list, never reset by a flush.  Every character, punctuation and
\* whitespace included, is appended to the clause buffer, and inside the
\* loop only a hard or soft break ends a cue, a whitespace outside both
\* sets never.
C15_IntervalConsumption ==
    (/\ pc \in {"loop", "except", "done"}
     /\ text.t = "str"
     /\ ts_list.t = "list")
    => /\ ts_index = Covered(pos)
       /\ ts_index <= Len(ts_list.v)
       /\ pc = "loop" =>
             /\ curr_text = SubSeq(text.v, LastHi + 1, pos)
             /\ \A k \in 1..Len(cues) :
                   text.v[cues[k].hi] \in HardBreaks \cup SoftBreaks

\* "a<tab>a" with two intervals: the tab took none, stayed in the clause
\* and ended nothing
C15_Witness ==
    /\ pc = "done"
    /\ text = Str(<<97, 9, 97>>)
    /\ ts_list = Intervals(2)
    /\ ts_index = 2
    /\ Len(cues) = 1
    /\ cues[1].text = <<97, 9, 97>>
    /\ cues[1].start = IntVal(0)
    /\ cues[1].end = IntVal(200)

(***************************************************************************)
(* Properties of the document                                              *)
(***************************************************************************)
\* the block of a cue: its index line, its time line, its text, a blank line
Block(c) ==
    Digits(c.idx) \o <<10>>
    \o format_time(c.start) \o <<32, 45, 45, 62, 32>> \o format_time(c.end) \o <<10>>
    \o c.text \o <<10>>
    \o <<10>>

RECURSIVE Document(_)
\* the blocks of the cues, concatenated in order
Document(cs) == IF cs = <<>> THEN <<>> ELSE Block(Head(cs)) \o Document(Tail(cs))

\* C16: outside the pass-through and the failures the document returned is
\* the concatenation, in order of emission, of one block per cue; the k-th
\* cue carries the index k, no cue has an empty text, its text is trimmed,
\* and every block, the last included, ends with a blank line.
C16_DocumentFormat ==
    /\ srt_content = Document(cues)
    /\ \A k \in 1..Len(cues) :
          /\ cues[k].idx = k
          /\ cues[k].text # <<>>
          /\ ~IsSpace(cues[k].text[1])
          /\ ~IsSpace(cues[k].text[Len(cues[k].text)])
    /\ pc = "loop" => sentence_idx = Len(cues) + 1
    /\ (pc = "done" /\ ~failed /\ data.t = "dict" /\ ~TakesSrtBranch(data.v))
       => ret = Str(Document(cues))
    /\ (pc = "done" /\ ret.t = "str" /\ cues # <<>> /\ ret.v # <<>>
        /\ ~TakesSrtBranch(data.v))
       => /\ Len(ret.v) >= 2
          /\ SubSeq(ret.v, Len(ret.v) - 1, Len(ret.v)) = <<10, 10>>

\* "a。a," with two intervals: two numbered blocks
C16_Witness ==
    /\ pc = "done"
    /\ text = ShapeText
    /\ ts_list = Intervals(2)
    /\ min_length = IntVal(1)
    /\ Len(cues) = 2
    /\ ret = Str(<<49, 10, 48, 48, 58, 48, 48, 58, 48, 48, 44, 48, 48, 48,
                   32, 45, 45, 62, 32,
                   48, 48, 58, 48, 48, 58, 48, 48, 44, 49, 48, 48, 10,
                   97, 12290, 10, 10,
                   50, 10, 48, 48, 58, 48, 48, 58, 48, 48, 44, 49, 48, 48,
                   32, 45, 45, 62, 32,
                   48, 48, 58, 48, 48, 58, 48, 48, 44, 50, 48, 48, 10,
                   97, 44, 10, 10>>)

(***************************************************************************)
(* Properties of repeated calls                                            *)
(***************************************************************************)
\* the text and the intervals a call segments, None when it segments nothing
Segmented(res) ==
    LET d == ResultObject(res)
    IN  IF d.t = "dict" /\ d.v.keys \cap {"text", "transcription"} # {}
        THEN [text |-> SegmentedText(d.v),
              intervals |-> IF "timestamp" \in d.v.keys THEN d.v.timestamp
                                                        ELSE List(<<>>)]
        ELSE NoneVal

C20_SequenceNormalized ==
    (/\ pc = "done"
     /\ remembered # NoneVal
     /\ remembered.ml = min_length
     /\ inference_result.t \in {"list", "tuple"}
     /\ inference_result.v # <<>>
     /\ remembered.res = inference_result.v[1]
     /\ remembered.res.t = "dict")
    => ret = remembered.ret

(***************************************************************************)
(* Properties of the callers                                               *)
(***************************************************************************)
\* C18: no caller writes an empty .srt file, and an empty document is in
\* the editor of the open dialog only with the failure reported to the user.
C18_EmptyResultIsFailure ==
    /\ written # Str(<<>>)
    /\ (dlg_open /\ editor_value = Str(<<>>)) => notice = "generation_failed"

\* C19: at the call from export_subtitle and at the call from
\* show_interactive_editor_dialog the threshold is 15 when the text that
\* generate_smart_srt segments (the field text before the field
\* transcription) is CJK-dominant, and 40 otherwise.
C19_DefaultThreshold ==
    (/\ site \in {"export", "dialog"}
     /\ pc # "idle"
     /\ inference_result.t = "dict"
     /\ SegmentedText(inference_result.v).t = "str")
    => min_length = IntVal(IF MostlyCjk(SegmentedText(inference_result.v).v)
                           THEN 15 ELSE 40)

(***************************************************************************)
(* Properties of cues whose times cannot be formatted                      *)
(***************************************************************************)
\* the decimal digits of n < 10^w, w of them
FixedDigits(n, w) == [j \in 1..w |-> 48 + ((n \div (10 ^ (w - j))) % 10)]

\* what a timecode shows: hh:mm:ss,mmm for a non-negative int below 100
\* hours, 00:00:00,000 for a value that is no int
Rendered(x) ==
    IF x.t = "int"
    THEN FixedDigits(x.v \div 3600000, 2) \o <<58>>
         \o FixedDigits((x.v \div 60000) % 60, 2) \o <<58>>
         \o FixedDigits((x.v \div 1000) % 60, 2) \o <<44>>
         \o FixedDigits(x.v % 1000, 3)
    ELSE <<48, 48, 58, 48, 48, 58, 48, 48, 44, 48, 48, 48>>

RenderedBlock(c) ==
    Digits(c.idx) \o <<10>>
    \o Rendered(c.start) \o <<32, 45, 45, 62, 32>> \o Rendered(c.end) \o <<10>>
    \o c.text \o <<10, 10>>

RECURSIVE RenderedDocument(_)
RenderedDocument(cs) ==
    IF cs = <<>> THEN <<>> ELSE RenderedBlock(Head(cs)) \o RenderedDocument(Tail(cs))

\* C21: with intervals holding a start or an end that is no int (None, a
\* float, a str) the call does not fail, the cues carry every non-whitespace
\* character of the text, each cue keeps the start of its first covered
\* interval and the end of its last, and in the document returned exactly
\* the times that are no int read 00:00:00,000, every other time being
\* formatted as usual.
C21_FormatFailureLocalized ==
    (WellFormedCall /\ pc = "done") =>
        /\ ~failed
        /\ NonSpace(CueTexts(cues)) = NonSpace(text.v)
        /\ ret = Str(RenderedDocument(cues))
        /\ \A k \in 1..Len(cues) :
              LET before  == Covered(cues[k].lo - 1)
                  through == Covered(cues[k].hi)
              IN  /\ cues[k].end = EndOf(through)
                  /\ through > before => cues[k].start = StartOf(before + 1)

\* "a。a" with the intervals (None, 5) and (7, 1500.0): the first cue has
\* the fallback as its start, the second as its end
C21_Witness ==
    /\ pc = "done"
    /\ text = Str(<<97, 12290, 97>>)
    /\ ts_list = List(<<List(<<NoneVal, IntVal(5)>>), List(<<IntVal(7), FloatVal(1500)>>)>>)
    /\ Len(cues) = 2
    /\ cues[1].start = NoneVal /\ cues[1].end = IntVal(5)
    /\ cues[2].start = IntVal(7) /\ cues[2].end = FloatVal(1500)
    /\ ret = Str(<<49, 10, 48, 48, 58, 48, 48, 58, 48, 48, 44, 48, 48, 48,
                   32, 45, 45, 62, 32,
                   48, 48, 58, 48, 48, 58, 48, 48, 44, 48, 48, 53, 10,
                   97, 12290, 10, 10,
                   50, 10, 48, 48, 58, 48, 48, 58, 48, 48, 44, 48, 48, 55,
                   32, 45, 45, 62, 32,
                   48, 48, 58, 48, 48, 58, 48, 48, 44, 48, 48, 48, 10,
                   97, 10, 10>>)

(***************************************************************************)
(* Properties of whitespace in front of a clause                           *)
(***************************************************************************)
\* the break at position p of the text would end a clause begun at lo:
\* a hard break, or a soft break with p - lo + 1 >= min_length
BreakFires(lo, p) ==
    \/ text.v[p] \in HardBreaks
    \/ text.v[p] \in SoftBreaks /\ p - lo + 1 >= min_length.v

\* C28: a break that fires while the clause buffer holds only whitespace
\* emits nothing and resets nothing.  The clause of a cue begins right
\* after the previous cue, so the whitespace kept stays at its head; every
\* break that fired inside a clause before its end had only whitespace
\* before it, lengths being counted from the head of the clause, kept
\* whitespace included; the clause start stays unset while the buffer is
\* whitespace; the whitespace is gone from the cue text, which is never
\* empty and never holds a newline.
C28_WhitespaceOnlyBuffer ==
    (WellFormedCall /\ ~failed) =>
        /\ \A k \in 1..Len(cues) :
              /\ cues[k].lo = (IF k = 1 THEN 1 ELSE cues[k - 1].hi + 1)
              /\ \A p \in cues[k].lo..(cues[k].hi - 1) :
                    BreakFires(cues[k].lo, p) => AllSpace(text.v, cues[k].lo, p)
              /\ cues[k].text # <<>>
              /\ \A j \in 1..Len(cues[k].text) : cues[k].text[j] # 10
              /\ Trimmed(cues[k].text, text.v, cues[k].lo, cues[k].hi)
        /\ pc = "loop" =>
              /\ curr_text = SubSeq(text.v, LastHi + 1, pos)
              /\ \A p \in (LastHi + 1)..pos :
                    BreakFires(LastHi + 1, p) => AllSpace(text.v, LastHi + 1, p)
              /\ AllSpace(text.v, LastHi + 1, pos) => IsUnset(curr_start)
              /\ \A k \in 1..Len(cues) : BreakFires(cues[k].lo, cues[k].hi)

\* "\na," with threshold 3: the newline fired on an empty clause and was
\* kept, and with it the clause reached the threshold at the comma
C28_Witness ==
    /\ pc = "loop"
    /\ text = Str(<<10, 97, 44>>)
    /\ min_length = IntVal(3)
    /\ pos = 3
    /\ Len(cues) = 1
    /\ cues[1].lo = 1
    /\ cues[1].hi = 3
    /\ cues[1].text = <<97, 44>>
    /\ curr_text = <<>>

\* a list of intervals of non-negative ints, each start <= its end and
\* each end <= the next start
MonotoneIntervals(ts) ==
    /\ \A j \in 1..Len(ts) :
          /\ ts[j].v[1].t = "int" /\ ts[j].v[2].t = "int"
          /\ 0 <= ts[j].v[1].v
          /\ ts[j].v[1].v <= ts[j].v[2].v
    /\ \A j \in 1..(Len(ts) - 1) : ts[j].v[2].v <= ts[j + 1].v[1].v

\* C29: with a non-negative monotone interval list every cue starts no
\* later than it ends and ends no later than the next cue starts, cues
\* timed by the fallback to the last end included.
C29_CueTimesOrdered ==
    (WellFormedCall /\ MonotoneIntervals(ts_list.v)) =>
        /\ \A k \in 1..Len(cues) : cues[k].start.v <= cues[k].end.v
        /\ \A k \in 1..(Len(cues) - 1) : cues[k].end.v <= cues[k + 1].start.v

\* "a,a" with the one interval (3, 5) and threshold 1: cues 3 --> 5 and,
\* by the fallback, 5 --> 5
C29_Witness ==
    /\ pc = "done"
    /\ text = Str(<<97, 44, 97>>)
    /\ ts_list = List(<<Pair(3, 5)>>)
    /\ Len(cues) = 2
    /\ cues[1].start = IntVal(3) /\ cues[1].end = IntVal(5)
    /\ cues[2].start = IntVal(5) /\ cues[2].end = IntVal(5)

\* C27: create_task on an id the table holds returns False and changes no
\* row (status, progress, result and audio path stay); on a fresh id it
\* returns True and adds a row of status 'submitted'; update_task_status,
\* save_task_result and save_task_error on an id the table does not hold
\* create no row
C27_CreateTaskKeepsRecord ==
    [][ /\ (db_op'.op = "create_task" /\ HasTask(db, db_op'.id))
            => (db' = db /\ db_ret' = BoolVal(FALSE))
        /\ (db_op'.op = "create_task" /\ ~HasTask(db, db_op'.id))
            => /\ db_ret' = BoolVal(TRUE)
               /\ Len(db') = Len(db) + 1
               /\ SubSeq(db', 1, Len(db)) = db
               /\ db'[Len(db')].id = db_op'.id
               /\ db'[Len(db')].status = "submitted"
        /\ ( /\ db_op'.op \in {"update_task_status", "save_task_result",
                               "save_task_error"}
             /\ ~HasTask(db, db_op'.id) )
            => db' = db ]_vars

\* create_task refused on a row that holds a stored result
C27_Witness ==
    /\ db_op.op = "create_task"
    /\ db_ret = BoolVal(FALSE)
    /\ HasTask(db, db_op.id)
    /\ get_task_by_id(db, db_op.id).status = "completed"
    /\ get_task_by_id(db, db_op.id).result = ResultAudio

\* the step of the startup call load_history_tasks(clear=True)
IsStartupLoad == history_list = NoneVal /\ history_list' # NoneVal

\* what the recovery does with one row
Recovered(r) ==
    IF r.status = "completed"
    THEN r
    ELSE [r EXCEPT !.status = "failed", !.progress = ProgressInterrupted]

\* C26: after the startup call load_history_tasks(clear=True) every stored
\* task has status 'completed' or 'failed', however many tasks are stored:
\* each task that was not 'completed' is marked 'failed' with the progress
\* of an interrupted task, completed tasks and their results are unchanged
C26_StartupRecovery ==
    [][ IsStartupLoad =>
          /\ Len(db') = Len(db)
          /\ \A i \in DOMAIN db : db'[i] = Recovered(db[i])
          /\ \A i \in DOMAIN db' : db'[i].status \in {"completed", "failed"}
      ]_vars

\* the step in which start_polling issues a status request
IsRequest == poll_pc = "request" /\ poll_pc' # "request"

\* a response after which the claims have polling go on: HTTP 200, applied
\* without an exception, with a status other than completed and failed
KeepsPolling(resp) ==
    resp.kind = "json" /\ resp.status \notin {"completed", "failed"}

\* start_polling is past its loop, or on its way out of it
Stopping == poll_pc \in {"record", "stopped"}

\* C22: start_polling requests the status, waits and requests again as long
\* as every response is HTTP 200 with a status other than completed and
\* failed; the first response that is completed or failed, not 200, or an
\* exception ends it: no request is issued afterwards and is_polling is
\* false once start_polling has returned. When the service has reached a
\* terminal status polling eventually stops; nothing else bounds the polls.
C22_PollingStops ==
    /\ [][IsRequest =>
            /\ is_polling
            /\ KeepsPolling(response') => (poll_pc' = "sleep" /\ is_polling')
            /\ ~KeepsPolling(response') => Stopping']_vars
    /\ [][poll_pc = "sleep" => poll_pc' \in {"sleep", "request"}]_vars
    /\ [][Stopping =>
            /\ Stopping'
            /\ polls' = polls
            /\ response' = response]_vars
    /\ [](poll_pc = "stopped" => ~is_polling)
    /\ (server.status \in TerminalStatuses) ~> (poll_pc = "stopped")

\* polling went on up to the count and ended on the report of completion
C22_Witness ==
    /\ polls = MaxPolls
    /\ poll_pc = "stopped"
    /\ ~is_polling
    /\ response.kind = "json"
    /\ response.status = "completed"

\* the message a failed poll leaves
FailureMsg(resp) ==
    IF resp.kind = "http" THEN HttpErrorMsg(resp.http) ELSE PollErrorMsg

PollFailed(resp) == resp # NoneVal /\ resp.kind \in {"http", "raised"}

C24_CompletedStays ==
    ( /\ poll_pc = "stopped"
      /\ response # NoneVal
      /\ response.kind = "json"
      /\ response.status = "completed"
      /\ HasTask(db, PollTaskId) ) =>
        /\ get_task_by_id(db, PollTaskId).status = "completed"
        /\ get_task_by_id(db, PollTaskId).result = WithDatestr(server.result)

\* the paths on_submit_click can leave by
ExitPaths ==
    {"empty_url", "cookie_error", "encrypt_error", "request_failed",
     "success", "exception"}

\* C25: on_submit_click disables the submit button on entry, and whichever
\* way it leaves (empty URL, cookie read or encryption failure, request
\* failure, success, unexpected exception) the button is enabled again with
\* its idle text when the handler returns: the button never stays in the
\* submitting state
C25_ButtonReset ==
    /\ [][(submit_pc = "idle" /\ submit_pc' = "running") =>
            (submit_button'.disabled /\ submit_button'.text = "submitting...")
         ]_vars
    /\ [][(submit_pc = "running" /\ submit_pc' = "idle") =>
            /\ submit_exit' \in ExitPaths
            /\ ~submit_button'.disabled
            /\ submit_button'.text = "submit task"]_vars
    /\ [](submit_pc = "idle" =>
            (~submit_button.disabled /\ submit_button.text = "submit task"))
    /\ submit_button.disabled ~> ~submit_button.disabled

\* the handler has left by its inner except clause, the button is back
C25_Witness ==
    /\ submit_pc = "idle"
    /\ submit_exit = "encrypt_error"
    /\ submit_button = IdleButton

\* C30: with 'load browser cookie' checked, each browser of the dropdown
\* (Firefox, Edge, Chrome) is accepted by get_cookies_via_rookie: that
\* browser's cookies are read and the submission never ends in the
\* 'unsupported browser' error
C30_DropdownBrowsersAccepted ==
    [][( /\ submit_pc = "running"
         /\ submit_pc' = "idle"
         /\ submit_exit' \in ExitPaths \ {"empty_url", "exception"}
         /\ cookie_checkbox ) =>
            /\ status_display' # CookieErrorMsg(UnsupportedBrowser)
            /\ cookies_read' = CASE browser_dropdown = "Firefox" -> "firefox"
                                 [] browser_dropdown = "Edge" -> "edge"
                                 [] browser_dropdown = "Chrome" -> "chrome"
      ]_vars

====
